---- MODULE Spec2Model ----
(***************************************************************************)
(* Model of the pico-gs rendering core: the Core 0 generating loop, the    *)
(* inter-core SPSC command queue, the Core 1 executing loop, the GPU       *)
(* driver's register sequences and the RP2350 SPI transport.               *)
(*                                                                         *)
(* Ten specifications share one set of variables:                          *)
(*   Spec          - Core 0 / queue / Core 1 interleavings (execute is one *)
(*                   step of Core 1, run on the RP2350 transport)          *)
(*   FairSpec      - Spec with the scheduling of the two free-running      *)
(*                   cores stated as weak fairness                         *)
(*   DriverSpec    - one driver operation at a time, one register access   *)
(*                   per step, on a transport that may fail                *)
(*   TransportSpec - Rp2350Transport::write_register / read_register, one  *)
(*                   pin sample or SPI transaction per step                *)
(*   GeneratorSpec - the Core 0 loop alone, while Core 1 does not dequeue, *)
(*                   rendering the teapot mesh of assets/teapot.rs         *)
(*   MeshSpec      - render_mesh on meshes around the scratch capacity,    *)
(*                   one pass of its triangle loop per step                *)
(*   PairSpec      - commands::execute on two drivers, each on its own     *)
(*                   transport, one command per step                       *)
(*   ConfigSpec    - new, swap_buffers and gpu_set_fb_config, one register *)
(*                   access per step, on a transport that may fail         *)
(*   NumericSpec   - f32_to_12_4, compute_lighting and pack_position       *)
(*                   called on their own                                   *)
(*   ProgressSpec  - both cores with execute followed one register access  *)
(*                   at a time, CMD_FULL and VSYNC driven by the device,   *)
(*                   under fair scheduling                                 *)
(***************************************************************************)
EXTENDS Integers, Naturals, Sequences, FiniteSets, TLC

(***************************************************************************)
(* Bounds of the model (not program constants).                            *)
(***************************************************************************)
\* Core 0 makes at most MaxSent calls of enqueue_blocking.
MaxSent == 64
\* The keyboard delivers SelectDemo events only during the first MaxKeyPolls
\* polls of the main loop.
MaxKeyPolls == 1

\* With the executing loop followed register access by register access,
\* Core 0 makes at most MaxProgress calls of enqueue_blocking.
MaxProgress == 5
\* The same, for the generating loop taken alone.
MaxGenPolls == 3
\* Core 1 counts at most MaxIdle idle spins between two frames.
MaxIdle == 1
\* Number of triangles of the mesh rendered by the teapot demo.
MeshTris == 2
\* Number of angle steps of one teapot revolution.
AngleSteps == 2
\* Number of dwords of texture data uploaded (the checkerboard has 2048).
TexWords == 2

(***************************************************************************)
(* 64-bit register values.  TLC integers are 32 bits wide, so a u64 is a   *)
(* tuple of four 16-bit limbs, limb 1 = bits [15:0] ... limb 4 = [63:48].  *)
(***************************************************************************)
Limb == 65536

U64(l0, l1, l2, l3) == <<l0, l1, l2, l3>>

U64Zero == U64(0, 0, 0, 0)

\* A value below 2^31 widened to u64 (`x as u64`).
U64FromNat(n) == U64(n % Limb, n \div Limb, 0, 0)

RECURSIVE OrBits(_, _)
OrBits(a, b) ==
    IF a = 0 THEN b
    ELSE IF b = 0 THEN a
    ELSE (IF (a % 2 = 1) \/ (b % 2 = 1) THEN 1 ELSE 0)
         + 2 * OrBits(a \div 2, b \div 2)

RECURSIVE AndBits(_, _)
AndBits(a, b) ==
    IF a = 0 \/ b = 0 THEN 0
    ELSE (IF (a % 2 = 1) /\ (b % 2 = 1) THEN 1 ELSE 0)
         + 2 * AndBits(a \div 2, b \div 2)

\* Bitwise OR and AND of two 16-bit limbs.
Or16(a, b) == OrBits(a, b)

And16(a, b) == AndBits(a, b)

Or64(a, b) == <<Or16(a[1], b[1]), Or16(a[2], b[2]),
                Or16(a[3], b[3]), Or16(a[4], b[4])>>

And64(a, b) == <<And16(a[1], b[1]), And16(a[2], b[2]),
                 And16(a[3], b[3]), And16(a[4], b[4])>>

Pow2(k) == 2 ^ k

\* v << k on 64 bits, 0 <= k < 64; bits shifted past bit 63 are lost.
Shl64(v, k) ==
    LET q == k \div 16
        m == Pow2(k % 16)
        lo(i) == IF i >= 1 THEN (v[i] * m) % Limb ELSE 0
        hi(i) == IF i >= 1 THEN (v[i] * m) \div Limb ELSE 0
    IN  IF v = U64Zero THEN U64Zero
        ELSE <<lo(1 - q) + hi(0 - q), lo(2 - q) + hi(1 - q),
               lo(3 - q) + hi(2 - q), lo(4 - q) + hi(3 - q)>>

(***************************************************************************)
(* f32 inputs are rationals <<n, d>> with d > 0.                           *)
(***************************************************************************)
Rat(n, d) == <<n, d>>

TruncDiv(a, b) == IF a >= 0 THEN a \div b ELSE -((-a) \div b)

\* f32_to_12_4 clamping to [-2048, 2048]: 2048 * 16 = 32768 does not fit
\* an i16 and comes out as 0x8000.
f32_to_12_4_clamp_2048(val) ==
    LET n == val[1]
        d == val[2]
        clamped == IF n < (-2048) * d THEN Rat(-2048, 1)
                   ELSE IF n > 2048 * d THEN Rat(2048, 1)
                   ELSE val
        scaled == TruncDiv(clamped[1] * 16, clamped[2])
    IN  (scaled + Limb) % Limb

\* fixed.rs f32_to_12_4: clamp to [-2048, 2047.9375], times 16, `as i16`
\* (truncation toward zero), reinterpreted as u16.
f32_to_12_4(val) ==
    LET n == val[1]
        d == val[2]
        clamped == IF n < (-2048) * d THEN Rat(-2048, 1)
                   ELSE IF 16 * n > 32767 * d THEN Rat(32767, 16)
                   ELSE val
        scaled == TruncDiv(clamped[1] * 16, clamped[2])
    IN  (scaled + Limb) % Limb

\* Largest 25-bit depth code, 0x1FF_FFFF.
Z25_MAX == 33554431

\* fixed.rs f32_to_z25: clamp to [0, 1], times (0x1FF_FFFF as f32), `as u32`,
\* min 0x1FF_FFFF.  0x1FF_FFFF needs 25 significant bits, so its f32 value
\* is the nearest representable one, 2^25.  Defined for the depths whose
\* denominator divides 2^25, where the f32 product is exact.
f32_to_z25(val) ==
    LET n == val[1]
        d == val[2]
        clamped == IF n < 0 THEN Rat(0, 1)
                   ELSE IF n > d THEN Rat(1, 1)
                   ELSE val
        scaled == clamped[1] * ((Z25_MAX + 1) \div clamped[2])
    IN  IF scaled < Z25_MAX THEN scaled ELSE Z25_MAX

\* vertex.rs pack_color: a << 24 | b << 16 | g << 8 | r.
pack_color(r, g, b, a) ==
    Or64(Or64(Shl64(U64FromNat(a), 24), Shl64(U64FromNat(b), 16)),
         Or64(Shl64(U64FromNat(g), 8), U64FromNat(r)))

\* vertex.rs pack_position: z_fixed << 32 | (y_fixed & 0xFFFF) << 16
\* | (x_fixed & 0xFFFF).
pack_position(x, y, z) ==
    LET x_fixed == f32_to_12_4(x)
        y_fixed == f32_to_12_4(y)
        z_fixed == f32_to_z25(z)
    IN  Or64(Or64(Shl64(U64FromNat(z_fixed), 32),
                  Shl64(U64FromNat(y_fixed % Limb), 16)),
             U64FromNat(x_fixed % Limb))

\* vertex.rs GpuVertex::from_color_position.
from_color_position(r, g, b, a, x, y, z) ==
    [color_packed |-> pack_color(r, g, b, a),
     uv_packed |-> U64Zero,
     position_packed |-> pack_position(x, y, z)]

\* fixed.rs f32_to_1_15: clamp to [-1.0, 0.99997], times 32768, `as i16`,
\* reinterpreted as u16.  The upper clamp value scales to 32767.0176.
f32_to_1_15(val) ==
    LET n == val[1]
        d == val[2]
        scaled == IF n < -d THEN -32768
                  ELSE IF 100000 * n > 99997 * d THEN 32767
                  ELSE TruncDiv(n * 32768, d)
    IN  (scaled + Limb) % Limb

\* The product of two rationals (f32 `*`, exact on the values used).
RatMul(a, b) == Rat(a[1] * b[1], a[2] * b[2])

\* vertex.rs pack_uv, for w > 0.
pack_uv(u, v, w) ==
    LET inv_w == Rat(w[2], w[1])
        uq == f32_to_1_15(RatMul(u, inv_w))
        vq == f32_to_1_15(RatMul(v, inv_w))
        q == f32_to_1_15(inv_w)
    IN  Or64(Or64(Shl64(U64FromNat(q % Limb), 32),
                  Shl64(U64FromNat(vq % Limb), 16)),
             U64FromNat(uq % Limb))

\* vertex.rs GpuVertex::from_full.
from_full(r, g, b, a, x, y, z, u, v, w) ==
    [color_packed |-> pack_color(r, g, b, a),
     uv_packed |-> pack_uv(u, v, w),
     position_packed |-> pack_position(x, y, z)]

(***************************************************************************)
(* Render commands (render/mod.rs): one record shape per enum variant.     *)
(***************************************************************************)
\* The content of a queue slot that holds no command.
NoCmd == [kind |-> "None"]

SubmitScreenTriangle(v0, v1, v2, textured) ==
    [kind |-> "SubmitScreenTriangle", v0 |-> v0, v1 |-> v1, v2 |-> v2,
     textured |-> textured]

WaitVsync == [kind |-> "WaitVsync"]

ClearFramebuffer(color, clear_depth) ==
    [kind |-> "ClearFramebuffer", color |-> color,
     clear_depth |-> clear_depth]

SetRenderMode(gouraud, textured, z_test, z_write, color_write) ==
    [kind |-> "SetRenderMode",
     flags |-> [gouraud |-> gouraud, textured |-> textured,
                z_test |-> z_test, z_write |-> z_write,
                color_write |-> color_write]]

UploadTexture(gpu_address, texture_id) ==
    [kind |-> "UploadTexture", gpu_address |-> gpu_address,
     texture_id |-> texture_id]

(***************************************************************************)
(* Demo scenes (scene/demos.rs, scene/mod.rs).                             *)
(***************************************************************************)
Demo == {"GouraudTriangle", "TexturedTriangle", "SpinningTeapot"}

\* #[default] of enum Demo.
DefaultDemo == "GouraudTriangle"

gouraud_triangle_vertices ==
    << from_color_position(255, 0, 0, 255, Rat(320, 1), Rat(80, 1), Rat(1, 2)),
       from_color_position(0, 255, 0, 255, Rat(120, 1), Rat(400, 1), Rat(1, 2)),
       from_color_position(0, 0, 255, 255, Rat(520, 1), Rat(400, 1), Rat(1, 2)) >>

textured_triangle_vertices ==
    << from_full(255, 255, 255, 255, Rat(320, 1), Rat(80, 1), Rat(1, 2),
                 Rat(1, 2), Rat(0, 1), Rat(1, 1)),
       from_full(255, 255, 255, 255, Rat(120, 1), Rat(400, 1), Rat(1, 2),
                 Rat(0, 1), Rat(1, 1), Rat(1, 1)),
       from_full(255, 255, 255, 255, Rat(520, 1), Rat(400, 1), Rat(1, 2),
                 Rat(1, 1), Rat(1, 1), Rat(1, 1)) >>

\* Texture memory start, 0x180000.
TEXTURE_BASE_ADDR == 1572864

TEX_ID_CHECKERBOARD == 0

\* A switch_demo that asks for the setup again when the demo selected is
\* the active one.
switch_demo_always_init(active, init, demo) ==
    [active_demo |-> demo, needs_init |-> TRUE, changed |-> active # demo]

\* Scene::switch_demo: the new (active_demo, needs_init) and the return value.
switch_demo(active, init, demo) ==
    IF active # demo
    THEN [active_demo |-> demo, needs_init |-> TRUE, changed |-> TRUE]
    ELSE [active_demo |-> active, needs_init |-> init, changed |-> FALSE]

(***************************************************************************)
(* Register map (gpu/registers.rs).  The executor in render/commands.rs    *)
(* also names TRI_MODE, FB_ZBUFFER, TEX0_BASE, TEX0_FMT, TEX0_WRAP and the *)
(* Z_COMPARE / TRI_MODE bit constants, which only the earlier register map *)
(* (firmware/src/gpu/registers.rs) defines.                                *)
(***************************************************************************)
COLOR == 0
UV0_UV1 == 1
VERTEX_NOKICK == 6
VERTEX_KICK_012 == 7
VERTEX_KICK_021 == 8
TEX0_BASE == 16
TEX0_FMT == 17
TEX0_WRAP == 20
RENDER_MODE == 48
TRI_MODE == 48
FB_CONFIG == 64
FB_DISPLAY == 65
FB_ZBUFFER == 66
MEM_FILL == 68
FB_CONTROL == 67
MEM_ADDR == 112
MEM_DATA == 113
ID == 127

FB_CONFIG_Z_BASE_SHIFT == 16
FB_CONFIG_WIDTH_LOG2_SHIFT == 32
FB_CONFIG_HEIGHT_LOG2_SHIFT == 36
FB_DISPLAY_FB_ADDR_SHIFT == 32
FB_DISPLAY_WIDTH_LOG2_SHIFT == 48
MEM_FILL_VALUE_SHIFT == 16
MEM_FILL_COUNT_SHIFT == 32

RENDER_MODE_GOURAUD == 1
RENDER_MODE_Z_TEST == 4
RENDER_MODE_Z_WRITE == 8
RENDER_MODE_COLOR_WRITE == 16
TRI_MODE_Z_TEST == 4
TRI_MODE_Z_WRITE == 8

\* 0b001 << 32 and 0b110 << 32.
Z_COMPARE_LEQUAL == U64(0, 0, 1, 0)
Z_COMPARE_ALWAYS == U64(0, 0, 6, 0)

\* Addresses 0x000000, 0x080000, 0x100000 in 512-byte units (addr >> 9).
FB_A_BASE_512 == 0
FB_B_BASE_512 == 1024
ZBUFFER_BASE_512 == 2048
\* 0x100000.
ZBUFFER_ADDR == 1048576
\* 0x6702.
EXPECTED_DEVICE_ID == 26370

\* driver.rs pack_fb_config.
pack_fb_config(color_base, z_base, width_log2, height_log2) ==
    Or64(Or64(U64FromNat(color_base),
              Shl64(U64FromNat(z_base), FB_CONFIG_Z_BASE_SHIFT)),
         Or64(Shl64(U64FromNat(width_log2), FB_CONFIG_WIDTH_LOG2_SHIFT),
              Shl64(U64FromNat(height_log2), FB_CONFIG_HEIGHT_LOG2_SHIFT)))

\* driver.rs pack_fb_display.
pack_fb_display(fb_addr, width_log2) ==
    Or64(Shl64(U64FromNat(fb_addr), FB_DISPLAY_FB_ADDR_SHIFT),
         Shl64(U64FromNat(width_log2), FB_DISPLAY_WIDTH_LOG2_SHIFT))

\* RenderFlags::to_render_mode (and its alias to_tri_mode).
to_render_mode(flags) ==
    U64FromNat((IF flags.gouraud THEN RENDER_MODE_GOURAUD ELSE 0)
             + (IF flags.z_test THEN RENDER_MODE_Z_TEST ELSE 0)
             + (IF flags.z_write THEN RENDER_MODE_Z_WRITE ELSE 0)
             + (IF flags.color_write THEN RENDER_MODE_COLOR_WRITE ELSE 0))

(***************************************************************************)
(* The steps of a driver operation, in program order.  A step is a         *)
(* register write ("W"), a register read ("R"), the FlowControl call       *)
(* wait_vsync ("V") or the driver-local exchange of draw_fb and display_fb *)
(* ("S").  Every write and read in driver.rs and commands.rs is followed   *)
(* by `?`, so the operation runs its steps in order and returns            *)
(* Err(Transport(e)) at the first access whose transport call returns      *)
(* Err(e).                                                                 *)
(***************************************************************************)
W(addr, data) == [ins |-> "W", addr |-> addr, data |-> data]

R(addr) == [ins |-> "R", addr |-> addr, data |-> U64Zero]

WaitVsyncStep == [ins |-> "V", addr |-> 0, data |-> U64Zero]

SwapStep == [ins |-> "S", addr |-> 0, data |-> U64Zero]

\* The framebuffer configurations GpuDriver::new starts from.
InitDrawFb == <<FB_A_BASE_512, ZBUFFER_BASE_512, 9, 9>>

InitDisplayFb == <<FB_B_BASE_512, 0, 9, 9>>

\* A constructor that programs the frame buffers before it looks at the ID.
new_steps_config_first(id) ==
    << W(FB_CONFIG, pack_fb_config(InitDrawFb[1], InitDrawFb[2],
                                   InitDrawFb[3], InitDrawFb[4])),
       W(FB_DISPLAY, pack_fb_display(InitDisplayFb[1], InitDisplayFb[3])),
       R(ID) >>

\* GpuDriver::new, for a device whose ID register reads `id`.
new_steps(id) ==
    IF id[1] # EXPECTED_DEVICE_ID
    THEN << R(ID) >>
    ELSE << R(ID),
            W(FB_CONFIG, pack_fb_config(InitDrawFb[1], InitDrawFb[2],
                                        InitDrawFb[3], InitDrawFb[4])),
            W(FB_DISPLAY, pack_fb_display(InitDisplayFb[1], InitDisplayFb[3])) >>

\* A new that accepts the device only when the whole ID word is the
\* expected device id.
new_ret_whole_word(id) ==
    IF id # U64(EXPECTED_DEVICE_ID, 0, 0, 0) THEN "GpuNotDetected" ELSE "Ok"

\* The value GpuDriver::new returns when no transport call fails.
new_ret(id) == IF id[1] # EXPECTED_DEVICE_ID THEN "GpuNotDetected" ELSE "Ok"

\* An upload that writes the address again before every dword.
upload_memory_steps_addr_each(dword_addr, data) ==
    << W(MEM_ADDR, U64FromNat(dword_addr)) >>
    \o [i \in 1..(2 * Len(data)) |->
            IF i % 2 = 1 THEN W(MEM_ADDR, U64FromNat(dword_addr))
            ELSE W(MEM_DATA, data[i \div 2])]

\* GpuDriver::upload_memory.
upload_memory_steps(dword_addr, data) ==
    << W(MEM_ADDR, U64FromNat(dword_addr)) >>
    \o [i \in 1..Len(data) |-> W(MEM_DATA, data[i])]

\* GpuDriver::read_memory into a buffer of n dwords.
read_memory_steps(dword_addr, n) ==
    << W(MEM_ADDR, U64FromNat(dword_addr)) >> \o [i \in 1..n |-> R(MEM_DATA)]

\* A vertex written position first: the kick comes before the attributes.
vertex_steps_position_first(v, textured, reg) ==
    << W(reg, v.position_packed) >>
    \o (IF textured THEN << W(UV0_UV1, v.uv_packed) >> ELSE << >>)
    \o << W(COLOR, v.color_packed) >>

\* The writes of one vertex of submit_triangle.
vertex_steps(v, textured, reg) ==
    << W(COLOR, v.color_packed) >>
    \o (IF textured THEN << W(UV0_UV1, v.uv_packed) >> ELSE << >>)
    \o << W(reg, v.position_packed) >>

\* GpuDriver::submit_triangle.
submit_triangle_steps(v0, v1, v2, textured) ==
    vertex_steps(v0, textured, VERTEX_NOKICK)
    \o vertex_steps(v1, textured, VERTEX_NOKICK)
    \o vertex_steps(v2, textured, VERTEX_KICK_012)

\* A swap that writes the registers and leaves the tracked pair as it was.
swap_buffers_steps_no_exchange(draw, display) ==
    << W(FB_CONFIG, pack_fb_config(display[1], display[2], display[3],
                                   display[4])),
       W(FB_DISPLAY, pack_fb_display(draw[1], draw[3])) >>

\* GpuDriver::swap_buffers called with the tracked (draw, display): the
\* exchange comes first, then FB_CONFIG for the new draw target and
\* FB_DISPLAY for the new display target.
swap_buffers_steps(draw, display) ==
    << SwapStep,
       W(FB_CONFIG, pack_fb_config(display[1], display[2], display[3],
                                   display[4])),
       W(FB_DISPLAY, pack_fb_display(draw[1], draw[3])) >>

(***************************************************************************)
(* Textures (assets/textures.rs).                                          *)
(***************************************************************************)
\* CHECKERBOARD_64_DATA[i]: pixels (2i, 2i+1) of the 64x64 checkerboard,
\* white 0xFFFFFFFF or dark gray 0xFF404040 per 8x8 block.
CheckerboardDword(i) ==
    LET x == (2 * i) % 64
        y == (2 * i) \div 64
        texel(bx) == IF (bx + (y \div 8)) % 2 = 0
                     THEN <<65535, 65535>> ELSE <<16448, 65344>>
        c0 == texel(x \div 8)
        c1 == texel((x + 1) \div 8)
    IN  U64(c0[1], c0[2], c1[1], c1[2])

CHECKERBOARD_64 ==
    [data |-> [i \in 1..TexWords |-> CheckerboardDword(i - 1)],
     width |-> 64, height |-> 64, width_log2 |-> 6, height_log2 |-> 6]

TEXTURE_TABLE == << CHECKERBOARD_64 >>

\* TextureSource::get_texture: << >> is None, << t >> is Some(t).
get_texture(id) ==
    IF id >= Len(TEXTURE_TABLE) THEN << >> ELSE << TEXTURE_TABLE[id + 1] >>

(***************************************************************************)
(* The command executor (render/commands.rs).                              *)
(***************************************************************************)
\* execute_clear.
execute_clear_steps(cmd) ==
    LET r == cmd.color[1]
        g == cmd.color[2]
        b == cmd.color[3]
        a == cmd.color[4]
        v00 == from_color_position(r, g, b, a, Rat(0, 1), Rat(0, 1), Rat(0, 1))
        v10 == from_color_position(r, g, b, a, Rat(639, 1), Rat(0, 1), Rat(0, 1))
        v11 == from_color_position(r, g, b, a, Rat(639, 1), Rat(479, 1), Rat(0, 1))
        v01 == from_color_position(r, g, b, a, Rat(0, 1), Rat(479, 1), Rat(0, 1))
        far_v00 == from_color_position(0, 0, 0, 0, Rat(0, 1), Rat(0, 1), Rat(1, 1))
        far_v10 == from_color_position(0, 0, 0, 0, Rat(639, 1), Rat(0, 1), Rat(1, 1))
        far_v11 == from_color_position(0, 0, 0, 0, Rat(639, 1), Rat(479, 1), Rat(1, 1))
        far_v01 == from_color_position(0, 0, 0, 0, Rat(0, 1), Rat(479, 1), Rat(1, 1))
    IN  << W(TRI_MODE, U64Zero), W(COLOR, pack_color(r, g, b, a)) >>
        \o submit_triangle_steps(v00, v10, v11, FALSE)
        \o submit_triangle_steps(v00, v11, v01, FALSE)
        \o (IF cmd.clear_depth
            THEN << W(FB_ZBUFFER, Or64(Z_COMPARE_ALWAYS, U64FromNat(ZBUFFER_ADDR))),
                    W(TRI_MODE, U64FromNat(TRI_MODE_Z_TEST + TRI_MODE_Z_WRITE)) >>
                 \o submit_triangle_steps(far_v00, far_v10, far_v11, FALSE)
                 \o submit_triangle_steps(far_v00, far_v11, far_v01, FALSE)
                 \o << W(FB_ZBUFFER, Or64(Z_COMPARE_LEQUAL, U64FromNat(ZBUFFER_ADDR))) >>
            ELSE << >>)

\* An executor that configures texture unit 0 whether or not the lookup
\* found the texture.
execute_upload_texture_steps_configure_always(cmd) ==
    LET found == get_texture(cmd.texture_id)
    IN  (IF found = << >> THEN << >>
         ELSE upload_memory_steps(cmd.gpu_address, found[1].data))
        \o << W(TEX0_BASE, U64FromNat(cmd.gpu_address)),
              W(TEX0_WRAP, U64Zero) >>

\* execute_upload_texture.
execute_upload_texture_steps(cmd) ==
    LET found == get_texture(cmd.texture_id)
    IN  IF found = << >> THEN << >>
        ELSE LET tex == found[1]
                 fmt == Or64(Or64(Shl64(U64FromNat(tex.height_log2), 8),
                                  Shl64(U64FromNat(tex.width_log2), 4)),
                             U64FromNat(1))
             IN  upload_memory_steps(cmd.gpu_address, tex.data)
                 \o << W(TEX0_BASE, U64FromNat(cmd.gpu_address)),
                       W(TEX0_FMT, fmt),
                       W(TEX0_WRAP, U64Zero) >>

\* An executor that swaps first and waits for the vertical blank after.
execute_vsync_steps_swap_first(draw, display) ==
    swap_buffers_steps(draw, display) \o << WaitVsyncStep >>

\* execute_vsync: wait_vsync, then swap_buffers.
execute_vsync_steps(draw, display) ==
    << WaitVsyncStep >> \o swap_buffers_steps(draw, display)

\* execute: one arm per command variant.
execute_steps(cmd, draw, display) ==
    CASE cmd.kind = "ClearFramebuffer" -> execute_clear_steps(cmd)
      [] cmd.kind = "WaitVsync" -> execute_vsync_steps(draw, display)
      [] cmd.kind = "SubmitScreenTriangle" ->
            submit_triangle_steps(cmd.v0, cmd.v1, cmd.v2, cmd.textured)
      [] cmd.kind = "SetRenderMode" ->
            << W(TRI_MODE, to_render_mode(cmd.flags)) >>
      [] cmd.kind = "UploadTexture" -> execute_upload_texture_steps(cmd)
      [] OTHER -> << >>

(***************************************************************************)
(* Running the steps of an operation.  res[i] is what the transport call   *)
(* of step i returns: "Ok" or the name of an error.                        *)
(***************************************************************************)
run_steps(steps, res, draw, display) ==
    LET bad == {i \in DOMAIN steps :
                    steps[i].ins \in {"W", "R"} /\ res[i] # "Ok"}
        fail == IF bad = {} THEN 0
                ELSE CHOOSE i \in bad : \A j \in bad : i <= j
        last == IF fail = 0 THEN Len(steps) ELSE fail
        swaps == Cardinality({i \in 1..last : steps[i].ins = "S"})
    IN  [ret |-> IF fail = 0 THEN "Ok" ELSE "Transport",
         err |-> IF fail = 0 THEN "none" ELSE res[fail],
         draw |-> IF swaps % 2 = 1 THEN display ELSE draw,
         display |-> IF swaps % 2 = 1 THEN draw ELSE display,
         issued |-> last]

\* A transport that hands the result of the SPI bus operation to its
\* caller.
rp2350_transport_ret_propagated(spi_result) == spi_result

\* Rp2350Transport::write_register and read_register discard the result of
\* the SPI bus operation (`let _ = self.spi.write(&buf)`) and return Ok.
rp2350_transport_ret(spi_result) == "Ok"

(***************************************************************************)
(* The mesh of the teapot demo (render/mesh.rs).  The model mesh is a      *)
(* strip of MeshTris triangles over MeshTris + 2 vertices; Phase 1 of      *)
(* render_mesh (transform and light every vertex) is the table             *)
(* Transformed(angle): a half-turn mirrors the screen x coordinates.       *)
(***************************************************************************)
MAX_TRANSFORMED == 148

TEAPOT_COLOR == <<200, 200, 210, 255>>

MeshVerts == MeshTris + 2

\* mesh.indices, vertex indices counted from 0.
MeshIndices == [k \in 1..MeshTris |-> <<k - 1, k, k + 1>>]

\* mesh.positions.len().min(MAX_TRANSFORMED), for a mesh of n positions.
mesh_vert_count(n) == IF n < MAX_TRANSFORMED THEN n ELSE MAX_TRANSFORMED

vert_count == mesh_vert_count(MeshVerts)

Transformed(angle) ==
    [i \in 0..(vert_count - 1) |->
        [x |-> IF angle % 2 = 0 THEN 100 + 100 * i ELSE 539 - 100 * i,
         y |-> IF i % 2 = 0 THEN 100 ELSE 300,
         z |-> Rat(1, 2),
         color |-> TEAPOT_COLOR]]

\* transform.rs is_front_facing: sign of the 2-D cross product of the
\* screen-space edges; zero counts as back-facing.
is_front_facing(v0, v1, v2) ==
    LET e1x == v1.x - v0.x
        e1y == v1.y - v0.y
        e2x == v2.x - v0.x
        e2y == v2.y - v0.y
        cross == e1x * e2y - e1y * e2x
    IN  cross > 0

\* mesh.rs screen_to_gpu.
screen_to_gpu(tv) ==
    from_color_position(tv.color[1], tv.color[2], tv.color[3], tv.color[4],
                        Rat(tv.x, 1), Rat(tv.y, 1), tv.z)

\* A triangle loop without the back-face test.
render_triangle_no_cull(tri, t, vc) ==
    LET i0 == tri[1]
        i1 == tri[2]
        i2 == tri[3]
    IN  IF i0 >= vc \/ i1 >= vc \/ i2 >= vc
        THEN NoCmd
        ELSE SubmitScreenTriangle(screen_to_gpu(t[i0]), screen_to_gpu(t[i1]),
                                  screen_to_gpu(t[i2]), FALSE)

\* One pass of the triangle loop of render_mesh, for the index triple
\* `tri`, the transformed vertices t and vc of them in the scratch buffer:
\* the command handed to the sink, or NoCmd when the triangle is skipped
\* (`continue`: index out of the scratch buffer, or back-facing).
render_triangle(tri, t, vc) ==
    LET i0 == tri[1]
        i1 == tri[2]
        i2 == tri[3]
    IN  IF i0 >= vc \/ i1 >= vc \/ i2 >= vc
        THEN NoCmd
        ELSE IF ~is_front_facing(t[i0], t[i1], t[i2])
        THEN NoCmd
        ELSE SubmitScreenTriangle(screen_to_gpu(t[i0]), screen_to_gpu(t[i1]),
                                  screen_to_gpu(t[i2]), FALSE)

\* Phase 2 of render_mesh for triangle k of the demo mesh.
mesh_triangle_cmd(k, angle) ==
    render_triangle(MeshIndices[k], Transformed(angle), vert_count)

\* The first triangle at or after k that render_mesh submits
\* (MeshTris + 1 if there is none).
RECURSIVE next_submitted(_, _)
next_submitted(k, angle) ==
    IF k > MeshTris THEN MeshTris + 1
    ELSE IF mesh_triangle_cmd(k, angle) # NoCmd THEN k
    ELSE next_submitted(k + 1, angle)

(***************************************************************************)
(* The teapot mesh (assets/teapot.rs TeapotMesh::generate): a body of      *)
(* revolution of NUM_RINGS rings of SEGMENTS vertices between a bottom and *)
(* a top cap vertex.                                                       *)
(***************************************************************************)
SEGMENTS == 16

NUM_RINGS == 9

MAX_VERTICES == NUM_RINGS * SEGMENTS + 2

MAX_TRIANGLES == SEGMENTS * 2 + (NUM_RINGS - 1) * SEGMENTS * 2

\* indices[k - 1]: the bottom cap fan, the quads between adjacent rings as
\* two triangles each, the top cap fan.  Vertex 0 is the bottom cap, the
\* rings start at ring_base = 1, the top cap is the last vertex.
TeapotIndices ==
    [k \in 1..MAX_TRIANGLES |->
        IF k <= SEGMENTS
        THEN LET sg == k - 1
                 next_s == (sg + 1) % SEGMENTS
             IN  <<0, 1 + next_s, 1 + sg>>
        ELSE IF k <= SEGMENTS + (NUM_RINGS - 1) * SEGMENTS * 2
        THEN LET q == k - SEGMENTS - 1
                 ring == q \div (2 * SEGMENTS)
                 sg == (q % (2 * SEGMENTS)) \div 2
                 next_s == (sg + 1) % SEGMENTS
                 base_curr == 1 + ring * SEGMENTS
                 base_next == 1 + (ring + 1) * SEGMENTS
                 a == base_curr + sg
                 b == base_curr + next_s
                 c == base_next + next_s
                 d == base_next + sg
             IN  IF q % 2 = 0 THEN <<a, b, c>> ELSE <<a, c, d>>
        ELSE LET sg == k - SEGMENTS - (NUM_RINGS - 1) * SEGMENTS * 2 - 1
                 next_s == (sg + 1) % SEGMENTS
                 last_ring_base == 1 + (NUM_RINGS - 1) * SEGMENTS
             IN  <<last_ring_base + sg, last_ring_base + next_s,
                   MAX_VERTICES - 1>>]

\* transform_vertex(positions[i], mvp) for the camera of main() and
\* angle = 0, to the nearest pixel: entry i + 1 is the screen (x, y) of
\* vertex i.
TeapotScreen ==
    << <<320, 350>>, <<413, 350>>, <<411, 362>>, <<394, 374>>, <<361, 383>>,
       <<320, 386>>, <<278, 383>>, <<245, 374>>, <<228, 362>>, <<226, 350>>,
       <<238, 339>>, <<260, 331>>, <<288, 326>>, <<320, 324>>, <<351, 326>>,
       <<379, 331>>, <<401, 339>>, <<469, 323>>, <<473, 341>>, <<449, 359>>,
       <<395, 373>>, <<320, 379>>, <<244, 373>>, <<190, 359>>, <<166, 341>>,
       <<170, 323>>, <<193, 309>>, <<230, 298>>, <<273, 292>>, <<319, 290>>,
       <<366, 292>>, <<409, 298>>, <<446, 309>>, <<500, 277>>, <<508, 292>>,
       <<482, 309>>, <<416, 323>>, <<320, 328>>, <<223, 323>>, <<157, 309>>,
       <<131, 292>>, <<139, 277>>, <<171, 265>>, <<215, 257>>, <<266, 252>>,
       <<319, 250>>, <<373, 252>>, <<424, 257>>, <<468, 265>>, <<501, 240>>,
       <<510, 250>>, <<484, 261>>, <<417, 271>>, <<320, 274>>, <<222, 271>>,
       <<155, 261>>, <<129, 250>>, <<138, 240>>, <<170, 231>>, <<214, 226>>,
       <<266, 222>>, <<319, 221>>, <<373, 222>>, <<425, 226>>, <<469, 231>>,
       <<474, 201>>, <<478, 206>>, <<454, 210>>, <<398, 214>>, <<320, 215>>,
       <<241, 214>>, <<185, 210>>, <<161, 206>>, <<165, 201>>, <<190, 198>>,
       <<228, 195>>, <<272, 194>>, <<319, 193>>, <<367, 194>>, <<411, 195>>,
       <<449, 198>>, <<426, 162>>, <<426, 162>>, <<406, 162>>, <<369, 162>>,
       <<320, 162>>, <<270, 162>>, <<233, 162>>, <<213, 162>>, <<213, 162>>,
       <<227, 162>>, <<253, 162>>, <<284, 162>>, <<320, 162>>, <<355, 162>>,
       <<386, 162>>, <<412, 162>>, <<398, 143>>, <<396, 142>>, <<381, 141>>,
       <<354, 140>>, <<320, 140>>, <<285, 140>>, <<258, 141>>, <<243, 142>>,
       <<241, 143>>, <<251, 144>>, <<269, 144>>, <<293, 145>>, <<320, 145>>,
       <<346, 145>>, <<370, 144>>, <<388, 144>>, <<408, 133>>, <<406, 131>>,
       <<389, 129>>, <<359, 128>>, <<320, 128>>, <<280, 128>>, <<250, 129>>,
       <<233, 131>>, <<231, 133>>, <<243, 134>>, <<263, 136>>, <<290, 136>>,
       <<320, 137>>, <<349, 136>>, <<376, 136>>, <<396, 134>>, <<418, 123>>,
       <<416, 120>>, <<398, 117>>, <<364, 116>>, <<320, 115>>, <<275, 116>>,
       <<241, 117>>, <<223, 120>>, <<221, 123>>, <<234, 125>>, <<257, 127>>,
       <<287, 128>>, <<320, 129>>, <<352, 128>>, <<382, 127>>, <<405, 125>>,
       <<320, 123>> >>

\* Phase 1 of render_mesh on the teapot at angle 0.
TeapotTransformed ==
    [i \in 0..(mesh_vert_count(MAX_VERTICES) - 1) |->
        [x |-> TeapotScreen[i + 1][1], y |-> TeapotScreen[i + 1][2],
         z |-> Rat(1, 2), color |-> TEAPOT_COLOR]]

\* Phase 2 of render_mesh for triangle k of the teapot.
teapot_triangle_cmd(k) ==
    render_triangle(TeapotIndices[k], TeapotTransformed,
                    mesh_vert_count(MAX_VERTICES))

\* The triangles of the teapot that render_mesh submits at angle 0.
TeapotSubmitted ==
    {k \in 1..MAX_TRIANGLES :
        LET tri == TeapotIndices[k]
            t == TeapotTransformed
            vc == mesh_vert_count(MAX_VERTICES)
        IN  /\ tri[1] < vc /\ tri[2] < vc /\ tri[3] < vc
            /\ is_front_facing(t[tri[1]], t[tri[2]], t[tri[3]])}

\* The first triangle at or after k that render_mesh submits
\* (MAX_TRIANGLES + 1 if there is none).
teapot_next_submitted(k) ==
    LET rest == {j \in TeapotSubmitted : j >= k}
    IN  IF rest = {} THEN MAX_TRIANGLES + 1
        ELSE CHOOSE j \in rest : \A i \in rest : j <= i

(***************************************************************************)
(* State.                                                                  *)
(***************************************************************************)
VARIABLES
    \* Core 0 main loop (pico-gs-rp2350 main.rs)
    pc0,              \* "poll", or the enqueue_blocking call Core 0 is at
    active_demo,      \* scene.active_demo
    needs_init,       \* scene.needs_init
    angle,            \* teapot angle, in steps of TAU / AngleSteps
    mesh_i,           \* triangle render_mesh is at
    spinning,         \* inside enqueue_blocking, after a rejected attempt
    enq_result,       \* what the last producer.enqueue returned
    enq_returned,     \* the command that Err handed back
    polls,            \* polls of the keyboard made so far (up to MaxKeyPolls)
    \* heapless::spsc::Queue<RenderCommand, QUEUE_CAPACITY>
    head, tail, buffer,
    \* Core 1 loop (core1.rs)
    frame_count, cmds_this_frame, idle_spins,
    exec_ret,         \* what the last execute returned
    spi_failed,       \* an SPI bus operation has failed during an execute
    \* GpuDriver
    draw_fb, display_fb,
    \* history
    sent,             \* the commands passed to enqueue_blocking, in order
    executed,         \* the commands passed to execute, in order
    iter_cmds,        \* the commands passed to enqueue_blocking in this
                      \* iteration of the main loop
    \* one driver operation in progress (driver.rs, commands.rs)
    d_driver,         \* GpuDriver::new has returned Ok(driver)
    d_op,             \* the operation called, "none" before the first
    d_arg,            \* its arguments
    d_steps,          \* its steps when every transport call succeeds
    d_i,              \* the step it is at
    d_okret,          \* what it returns after its last step
    d_ret,            \* "Running", or what it returned
    d_err,            \* the E of a returned GpuError::Transport(E)
    t_err,            \* the E the transport returned to it
    t_fail_at,        \* the number of accesses issued when it did, else 0
    d_log,            \* the register accesses it has issued, in order
    d_buf,            \* buf of read_memory
    d_rx,             \* what the transport returned to its reads, in order
    v_pc,             \* wait_vsync in it: "idle", "wait_low", "wait_high",
                      \* "returned"
    v_seen,           \* the levels of VSYNC that call has sampled, in order,
                      \* equal samples in a row counted once
    vsync,            \* level of the VSYNC pin
    \* one Rp2350Transport call in progress (transport.rs)
    x_pc,             \* "idle", "poll" or "send"
    x_addr, x_data,   \* the arguments of write_register
    x_sample,         \* the last CMD_FULL sample of this call
    x_spun,           \* this call has sampled CMD_FULL asserted
    x_ret,            \* what the last call returned
    x_read,           \* the data the last read_register returned
    x_spi,            \* what the SPI bus operation of the last call returned
    cmd_full,         \* level of the CMD_FULL pin
    wire,             \* the frames sent on the SPI bus, in order
    \* one render_mesh call in progress (render/mesh.rs)
    m_pc,             \* "idle", "phase2" or "returned"
    m_n,              \* mesh.positions.len()
    m_tris,           \* mesh.indices
    m_vc,             \* vert_count
    m_k,              \* the triangle the loop of phase 2 is at
    m_facing,         \* per triangle done: "front", "back", or "skipped"
                      \* for an index outside the scratch buffer
    m_out,            \* the commands handed to the sink, in order
    m_xf,             \* per vertex of the mesh: the number of times the
                      \* call has transformed and lit it
    \* two GpuDrivers, each on a transport of its own
    p_fb,             \* per driver: its draw_fb and display_fb
    p_last,           \* per driver: the last command it executed, its
                      \* draw_fb and display_fb before, and the accesses
    p_prev,           \* per driver: the command it executed before that
    \* a call of one of the numeric helpers (math/fixed.rs, render/lighting.rs)
    f_op,             \* "idle", or the function called
    f_in,             \* its argument
    f_out             \* what it returned

coreVars == <<pc0, active_demo, needs_init, angle, mesh_i, spinning,
              enq_result, enq_returned, polls, head, tail, buffer,
              frame_count, cmds_this_frame,
              idle_spins, exec_ret, spi_failed, sent, executed, iter_cmds>>

fbVars == <<draw_fb, display_fb>>

drvVars == <<d_driver, d_op, d_arg, d_steps, d_i, d_okret, d_ret, d_err,
             t_err, t_fail_at, d_log, d_buf, d_rx, v_pc, v_seen,
             vsync>>

meshVars == <<m_pc, m_n, m_tris, m_vc, m_k, m_facing, m_out, m_xf>>

\* The state no step of the cores or of the driver touches: the transport
\* call and the render_mesh call in progress.
pairVars == <<p_fb, p_last, p_prev>>

numVars == <<f_op, f_in, f_out>>

xVars == <<x_pc, x_addr, x_data, x_sample, x_spun, x_ret, x_read, x_spi,
           cmd_full,
           wire, meshVars, pairVars, numVars>>

vars == <<coreVars, fbVars, drvVars, xVars>>

(***************************************************************************)
(* The inter-core queue (queue.rs): heapless::spsc::Queue<RenderCommand,   *)
(* QUEUE_CAPACITY>, a ring of QUEUE_CAPACITY slots with a head index owned *)
(* by the consumer and a tail index owned by the producer.  The ring keeps *)
(* one slot free to tell full from empty.                                  *)
(***************************************************************************)
QUEUE_CAPACITY == 64

\* Number of commands in the queue.
queue_len(h, t) == (t - h + QUEUE_CAPACITY) % QUEUE_CAPACITY

\* The commands in the queue, oldest first.
queue_contents(h, t, buf) ==
    [i \in 1..queue_len(h, t) |-> buf[(h + i - 1) % QUEUE_CAPACITY]]

\* An enqueue that overwrites the oldest command when the ring is full.
producer_enqueue_overwrite(h, t, buf, cmd) ==
    [ok |-> TRUE, tail |-> (t + 1) % QUEUE_CAPACITY,
     buffer |-> [buf EXCEPT ![t] = cmd], returned |-> NoCmd]

\* An enqueue that reports Ok on a full ring and drops the command.
producer_enqueue_drop(h, t, buf, cmd) ==
    LET next_tail == (t + 1) % QUEUE_CAPACITY
    IN  IF next_tail # h
        THEN [ok |-> TRUE, tail |-> next_tail,
              buffer |-> [buf EXCEPT ![t] = cmd], returned |-> NoCmd]
        ELSE [ok |-> TRUE, tail |-> t, buffer |-> buf, returned |-> NoCmd]

\* An enqueue on a ring that keeps no slot free: head = tail is taken for
\* a full ring.
producer_enqueue_full_when_empty(h, t, buf, cmd) ==
    IF t # h
    THEN [ok |-> TRUE, tail |-> (t + 1) % QUEUE_CAPACITY,
          buffer |-> [buf EXCEPT ![t] = cmd], returned |-> NoCmd]
    ELSE [ok |-> FALSE, tail |-> t, buffer |-> buf, returned |-> cmd]

\* Producer::enqueue: Ok(()) or Err(cmd), never blocks.
producer_enqueue(h, t, buf, cmd) ==
    LET next_tail == (t + 1) % QUEUE_CAPACITY
    IN  IF next_tail # h
        THEN [ok |-> TRUE, tail |-> next_tail,
              buffer |-> [buf EXCEPT ![t] = cmd], returned |-> NoCmd]
        ELSE [ok |-> FALSE, tail |-> t, buffer |-> buf, returned |-> cmd]

\* A dequeue that hands out the newest command instead of the oldest.
consumer_dequeue_newest(h, t, buf) ==
    IF h = t
    THEN [some |-> FALSE, value |-> NoCmd, head |-> h, buffer |-> buf]
    ELSE [some |-> TRUE,
          value |-> buf[(t + QUEUE_CAPACITY - 1) % QUEUE_CAPACITY],
          head |-> (h + 1) % QUEUE_CAPACITY,
          buffer |-> [buf EXCEPT ![h] = NoCmd]]

\* Consumer::dequeue: Some(cmd) or None, never blocks.
consumer_dequeue(h, t, buf) ==
    IF h = t
    THEN [some |-> FALSE, value |-> NoCmd, head |-> h, buffer |-> buf]
    ELSE [some |-> TRUE, value |-> buf[h],
          head |-> (h + 1) % QUEUE_CAPACITY,
          buffer |-> [buf EXCEPT ![h] = NoCmd]]

(***************************************************************************)
(* Core 0: the generating loop (main.rs, `loop` of main).                  *)
(***************************************************************************)
\* The enqueue_blocking calls of one iteration.
EnqueuePcs == {"upload", "clear", "mode", "tri", "mesh", "vsync"}

clear_cmd(demo) ==
    IF demo = "SpinningTeapot"
    THEN ClearFramebuffer(<<20, 20, 30, 255>>, TRUE)
    ELSE ClearFramebuffer(<<0, 0, 0, 255>>, FALSE)

mode_cmd(demo) ==
    CASE demo = "GouraudTriangle" -> SetRenderMode(TRUE, FALSE, FALSE, FALSE, TRUE)
      [] demo = "TexturedTriangle" -> SetRenderMode(FALSE, TRUE, FALSE, FALSE, TRUE)
      [] demo = "SpinningTeapot" -> SetRenderMode(TRUE, FALSE, TRUE, TRUE, TRUE)

tri_cmd(demo) ==
    IF demo = "TexturedTriangle"
    THEN SubmitScreenTriangle(textured_triangle_vertices[1],
                              textured_triangle_vertices[2],
                              textured_triangle_vertices[3], TRUE)
    ELSE SubmitScreenTriangle(gouraud_triangle_vertices[1],
                              gouraud_triangle_vertices[2],
                              gouraud_triangle_vertices[3], FALSE)

\* The command of the enqueue_blocking call Core 0 is at.
pending_cmd ==
    CASE pc0 = "upload" -> UploadTexture(TEXTURE_BASE_ADDR, TEX_ID_CHECKERBOARD)
      [] pc0 = "clear" -> clear_cmd(active_demo)
      [] pc0 = "mode" -> mode_cmd(active_demo)
      [] pc0 = "tri" -> tri_cmd(active_demo)
      [] pc0 = "mesh" -> mesh_triangle_cmd(mesh_i, angle)
      [] pc0 = "vsync" -> WaitVsync
      [] OTHER -> NoCmd

\* angle += TEAPOT_ROTATION_SPEED; if angle > TAU { angle -= TAU }.
next_angle(a) == IF a + 1 > AngleSteps THEN a + 1 - AngleSteps ELSE a + 1

\* Where Core 0 goes when render_mesh looks for its next triangle from k.
mesh_from(k) ==
    LET j == next_submitted(k, angle)
    IN  IF j <= MeshTris
        THEN [pc0 |-> "mesh", mesh_i |-> j, angle |-> angle]
        ELSE [pc0 |-> "vsync", mesh_i |-> 1, angle |-> next_angle(angle)]

\* A main loop whose simple demos enqueue the triangle right after the
\* clear and the render mode after the triangle.
after_enqueue_mode_after_triangle ==
    CASE pc0 = "upload" -> [pc0 |-> "clear", mesh_i |-> mesh_i, angle |-> angle]
      [] pc0 = "clear" ->
            IF active_demo = "SpinningTeapot"
            THEN [pc0 |-> "mode", mesh_i |-> mesh_i, angle |-> angle]
            ELSE [pc0 |-> "tri", mesh_i |-> mesh_i, angle |-> angle]
      [] pc0 = "mode" ->
            IF active_demo = "SpinningTeapot" THEN mesh_from(1)
            ELSE [pc0 |-> "vsync", mesh_i |-> mesh_i, angle |-> angle]
      [] pc0 = "tri" -> [pc0 |-> "mode", mesh_i |-> mesh_i, angle |-> angle]
      [] pc0 = "mesh" -> mesh_from(mesh_i + 1)
      [] pc0 = "vsync" -> [pc0 |-> "poll", mesh_i |-> mesh_i, angle |-> angle]

\* A main loop whose simple demos go back to the top of the loop after the
\* triangle, without the frame marker.
after_enqueue_no_marker ==
    CASE pc0 = "upload" -> [pc0 |-> "clear", mesh_i |-> mesh_i, angle |-> angle]
      [] pc0 = "clear" -> [pc0 |-> "mode", mesh_i |-> mesh_i, angle |-> angle]
      [] pc0 = "mode" ->
            IF active_demo = "SpinningTeapot" THEN mesh_from(1)
            ELSE [pc0 |-> "tri", mesh_i |-> mesh_i, angle |-> angle]
      [] pc0 = "tri" -> [pc0 |-> "poll", mesh_i |-> mesh_i, angle |-> angle]
      [] pc0 = "mesh" -> mesh_from(mesh_i + 1)
      [] pc0 = "vsync" -> [pc0 |-> "poll", mesh_i |-> mesh_i, angle |-> angle]

\* Where Core 0 goes when the enqueue_blocking call it is at returns.
after_enqueue ==
    CASE pc0 = "upload" -> [pc0 |-> "clear", mesh_i |-> mesh_i, angle |-> angle]
      [] pc0 = "clear" -> [pc0 |-> "mode", mesh_i |-> mesh_i, angle |-> angle]
      [] pc0 = "mode" ->
            IF active_demo = "SpinningTeapot" THEN mesh_from(1)
            ELSE [pc0 |-> "tri", mesh_i |-> mesh_i, angle |-> angle]
      [] pc0 = "tri" -> [pc0 |-> "vsync", mesh_i |-> mesh_i, angle |-> angle]
      [] pc0 = "mesh" -> mesh_from(mesh_i + 1)
      [] pc0 = "vsync" -> [pc0 |-> "poll", mesh_i |-> mesh_i, angle |-> angle]

\* What input::poll_keyboard may return.
KeyEvents(n) ==
    {"None"} \cup (IF polls < n THEN Demo ELSE {})

\* Top of the loop: poll the keyboard, switch demo, run the one-time setup
\* of a newly selected demo up to its enqueue_blocking call.
Poll(n) ==
    /\ pc0 = "poll"
    /\ \E ev \in KeyEvents(n) :
        LET sw == IF ev = "None"
                  THEN [active_demo |-> active_demo, needs_init |-> needs_init]
                  ELSE switch_demo(active_demo, needs_init, ev)
        IN  /\ active_demo' = sw.active_demo
            /\ needs_init' = FALSE
            /\ pc0' = IF sw.needs_init /\ sw.active_demo = "TexturedTriangle"
                      THEN "upload" ELSE "clear"
            /\ angle' = IF sw.needs_init /\ sw.active_demo = "SpinningTeapot"
                        THEN 0 ELSE angle
    /\ polls' = IF polls < n THEN polls + 1 ELSE polls
    /\ iter_cmds' = << >>
    /\ UNCHANGED <<mesh_i, spinning, enq_result, enq_returned, head, tail,
                   buffer, frame_count,
                   cmds_this_frame, idle_spins, exec_ret, spi_failed, sent,
                   executed, draw_fb, display_fb>>
    /\ UNCHANGED <<drvVars, xVars>>

C0Poll == Poll(MaxKeyPolls)

\* Core 0 is inside enqueue_blocking or may enter it.
InEnqueueBlocking ==
    /\ pc0 \in EnqueuePcs
    /\ spinning \/ Len(sent) < MaxSent

\* enqueue_blocking, arm Ok(()): the command is in the queue, return.
C0EnqueueOk ==
    /\ InEnqueueBlocking
    /\ LET cmd == pending_cmd
           r == producer_enqueue(head, tail, buffer, cmd)
           next == after_enqueue
       IN  /\ r.ok
           /\ tail' = r.tail
           /\ buffer' = r.buffer
           /\ enq_result' = "Ok"
           /\ enq_returned' = r.returned
           /\ spinning' = FALSE
           /\ sent' = IF spinning THEN sent ELSE Append(sent, cmd)
           /\ iter_cmds' = IF spinning THEN iter_cmds ELSE Append(iter_cmds, cmd)
           /\ pc0' = next.pc0
           /\ mesh_i' = next.mesh_i
           /\ angle' = next.angle
    /\ UNCHANGED <<active_demo, needs_init, polls, head, frame_count,
                   cmds_this_frame, idle_spins, exec_ret, spi_failed, executed,
                   draw_fb, display_fb>>
    /\ UNCHANGED <<drvVars, xVars>>

\* An enqueue_blocking that gives up on a full queue and returns.
C0EnqueueGiveUp ==
    /\ InEnqueueBlocking
    /\ LET cmd == pending_cmd
           r == producer_enqueue(head, tail, buffer, cmd)
           next == after_enqueue
       IN  /\ ~r.ok
           /\ tail' = r.tail
           /\ buffer' = r.buffer
           /\ enq_result' = "Full"
           /\ enq_returned' = r.returned
           /\ spinning' = FALSE
           /\ sent' = IF spinning THEN sent ELSE Append(sent, cmd)
           /\ iter_cmds' = IF spinning THEN iter_cmds ELSE Append(iter_cmds, cmd)
           /\ pc0' = next.pc0
           /\ mesh_i' = next.mesh_i
           /\ angle' = next.angle
    /\ UNCHANGED <<active_demo, needs_init, polls, head, frame_count,
                   cmds_this_frame, idle_spins, exec_ret, spi_failed, executed,
                   draw_fb, display_fb>>
    /\ UNCHANGED <<drvVars, xVars>>

\* enqueue_blocking, arm Err(_returned_cmd): queue full, spin and retry.
C0EnqueueFull ==
    /\ InEnqueueBlocking
    /\ LET cmd == pending_cmd
           r == producer_enqueue(head, tail, buffer, cmd)
       IN  /\ ~r.ok
           /\ tail' = r.tail
           /\ buffer' = r.buffer
           /\ enq_result' = "Full"
           /\ enq_returned' = r.returned
           /\ spinning' = TRUE
           /\ sent' = IF spinning THEN sent ELSE Append(sent, cmd)
           /\ iter_cmds' = IF spinning THEN iter_cmds ELSE Append(iter_cmds, cmd)
    /\ UNCHANGED <<pc0, mesh_i, angle, active_demo, needs_init, polls, head,
                   frame_count, cmds_this_frame, idle_spins, exec_ret,
                   spi_failed, executed, draw_fb, display_fb>>
    /\ UNCHANGED <<drvVars, xVars>>

(***************************************************************************)
(* Core 1: the executing loop (core1.rs core1_main).                       *)
(***************************************************************************)
\* An iteration that leaves the idle-spin counter as it is at the frame
\* boundary.
C1Execute_idle_spins_kept ==
    \E r \in {consumer_dequeue(head, tail, buffer)} :
        /\ r.some
        /\ head' = r.head
        /\ buffer' = r.buffer
        /\ \E steps \in {execute_steps(r.value, draw_fb, display_fb)} :
           \E spi_result \in {"Ok", "SpiBusError"} :
           \E x \in {run_steps(steps,
                               [i \in 1..Len(steps) |->
                                   rp2350_transport_ret(spi_result)],
                               draw_fb, display_fb)} :
                /\ exec_ret' = x.ret
                /\ draw_fb' = x.draw
                /\ display_fb' = x.display
                /\ spi_failed' = (spi_failed \/ spi_result # "Ok")
        /\ executed' = Append(executed, r.value)
        /\ IF r.value.kind = "WaitVsync"
           THEN /\ frame_count' = frame_count + 1
                /\ cmds_this_frame' = 0
                /\ idle_spins' = idle_spins
           ELSE /\ cmds_this_frame' = cmds_this_frame + 1
                /\ UNCHANGED <<frame_count, idle_spins>>
        /\ UNCHANGED <<pc0, active_demo, needs_init, angle, mesh_i, spinning,
                       enq_result, enq_returned, polls, tail, sent, iter_cmds>>
        /\ UNCHANGED <<drvVars, xVars>>

\* One iteration of the loop in which consumer.dequeue() returns Some(cmd):
\* commands::execute on the RP2350 transport, then the frame bookkeeping.
\* An Err from execute is logged (defmt::warn!) and the loop goes on.  The
\* iteration shares only the queue's head with Core 0 and reads it once, so
\* it is one step.
C1Execute ==
    \E r \in {consumer_dequeue(head, tail, buffer)} :
        /\ r.some
        /\ head' = r.head
        /\ buffer' = r.buffer
        /\ \E steps \in {execute_steps(r.value, draw_fb, display_fb)} :
           \E spi_result \in {"Ok", "SpiBusError"} :
           \E x \in {run_steps(steps,
                               [i \in 1..Len(steps) |->
                                   rp2350_transport_ret(spi_result)],
                               draw_fb, display_fb)} :
                /\ exec_ret' = x.ret
                /\ draw_fb' = x.draw
                /\ display_fb' = x.display
                /\ spi_failed' = (spi_failed \/ spi_result # "Ok")
        /\ executed' = Append(executed, r.value)
        /\ IF r.value.kind = "WaitVsync"
           THEN /\ frame_count' = frame_count + 1
                /\ cmds_this_frame' = 0
                /\ idle_spins' = 0
           ELSE /\ cmds_this_frame' = cmds_this_frame + 1
                /\ UNCHANGED <<frame_count, idle_spins>>
        /\ UNCHANGED <<pc0, active_demo, needs_init, angle, mesh_i, spinning,
                       enq_result, enq_returned, polls, tail, sent, iter_cmds>>
        /\ UNCHANGED <<drvVars, xVars>>

\* One iteration in which consumer.dequeue() returns None: count an idle
\* spin.
C1Idle ==
    /\ idle_spins < MaxIdle
    /\ \E r \in {consumer_dequeue(head, tail, buffer)} :
        /\ ~r.some
        /\ head' = r.head
        /\ buffer' = r.buffer
    /\ idle_spins' = idle_spins + 1
    /\ UNCHANGED <<pc0, active_demo, needs_init, angle, mesh_i, spinning,
                   enq_result, enq_returned, polls, tail, frame_count,
                   cmds_this_frame, exec_ret, spi_failed, sent, executed,
                   iter_cmds, draw_fb, display_fb>>
    /\ UNCHANGED <<drvVars, xVars>>

(***************************************************************************)
(* Specification of the two cores.  The state after main() has built the   *)
(* driver, the scene and the queue and has started Core 1.                 *)
(***************************************************************************)
CoreInit ==
    /\ pc0 = "poll"
    /\ active_demo = DefaultDemo
    /\ needs_init = TRUE
    /\ angle = 0
    /\ mesh_i = 1
    /\ spinning = FALSE
    /\ enq_result = "None"
    /\ enq_returned = NoCmd
    /\ polls = 0
    /\ head = 0
    /\ tail = 0
    /\ buffer = [i \in 0..(QUEUE_CAPACITY - 1) |-> NoCmd]
    /\ frame_count = 0
    /\ cmds_this_frame = 0
    /\ idle_spins = 0
    /\ exec_ret = "None"
    /\ spi_failed = FALSE
    /\ sent = << >>
    /\ executed = << >>
    /\ iter_cmds = << >>

\* The frame buffers GpuDriver::new leaves in the driver.
FbInit ==
    /\ draw_fb = InitDrawFb
    /\ display_fb = InitDisplayFb

\* No driver operation called yet.
DrvIdle ==
    /\ d_driver = FALSE
    /\ d_op = "none"
    /\ d_arg = << >>
    /\ d_steps = << >>
    /\ d_i = 1
    /\ d_okret = "Ok"
    /\ d_ret = "Idle"
    /\ d_err = "none"
    /\ t_err = "none"
    /\ t_fail_at = 0
    /\ d_log = << >>
    /\ d_buf = << >>
    /\ d_rx = << >>
    /\ v_pc = "idle"
    /\ v_seen = << >>
    /\ vsync = FALSE

Drivers == {"A", "B"}

\* No command executed yet.
NoExec == [cmd |-> NoCmd, draw |-> << >>, display |-> << >>, log |-> << >>]

\* No transport call made yet.
XIdle ==
    /\ x_pc = "idle"
    /\ x_addr = 0
    /\ x_data = U64Zero
    /\ x_sample = "none"
    /\ x_spun = FALSE
    /\ x_ret = "None"
    /\ x_read = U64Zero
    /\ x_spi = "none"
    /\ cmd_full = FALSE
    /\ wire = << >>
    /\ m_pc = "idle"
    /\ m_n = 0
    /\ m_tris = << >>
    /\ m_vc = 0
    /\ m_k = 1
    /\ m_facing = << >>
    /\ m_out = << >>
    /\ m_xf = << >>
    /\ p_fb = [d \in Drivers |->
                [draw |-> InitDrawFb, display |-> InitDisplayFb]]
    /\ p_last = [d \in Drivers |-> NoExec]
    /\ p_prev = [d \in Drivers |-> NoCmd]
    /\ f_op = "idle"
    /\ f_in = << >>
    /\ f_out = << >>

Init == CoreInit /\ FbInit /\ DrvIdle /\ XIdle

Next ==
    \/ C0Poll
    \/ C0EnqueueOk
    \/ C0EnqueueFull
    \/ C1Execute
    \/ C1Idle

Spec == Init /\ [][Next]_vars

(***************************************************************************)
(* Scheduling.  Each core is a processor of its own that never stops, so   *)
(* a loop that can take its next step does take it.  The fairness          *)
(* conditions name the steps by the move they make: on behaviours of Spec  *)
(* a step that advances head is a C1Execute step and one that ends the     *)
(* spinning of Core 0 is a C0EnqueueOk step; each condition is enabled     *)
(* exactly when that action is.                                            *)
(***************************************************************************)
Core1Executes == head # tail /\ head' = (head + 1) % QUEUE_CAPACITY

Core0RetrySucceeds ==
    /\ spinning
    /\ (tail + 1) % QUEUE_CAPACITY # head
    /\ spinning' = FALSE

FairSpec ==
    /\ Spec
    /\ WF_head(Core1Executes)
    /\ WF_spinning(Core0RetrySucceeds)

(***************************************************************************)
(* Specification of the generating loop alone: Core 1 does not dequeue,    *)
(* and the teapot demo renders the teapot mesh.  The behaviours are those  *)
(* of the program up to the first dequeue of Core 1.                       *)
(***************************************************************************)
\* The command of the enqueue_blocking call Core 0 is at.
gen_pending_cmd ==
    IF pc0 = "mesh" THEN teapot_triangle_cmd(mesh_i) ELSE pending_cmd

\* Where Core 0 goes when render_mesh looks for its next triangle from k.
teapot_from(k) ==
    LET j == teapot_next_submitted(k)
    IN  IF j <= MAX_TRIANGLES
        THEN [pc0 |-> "mesh", mesh_i |-> j, angle |-> angle]
        ELSE [pc0 |-> "vsync", mesh_i |-> 1, angle |-> next_angle(angle)]

\* Where Core 0 goes when the enqueue_blocking call it is at returns.
gen_after_enqueue ==
    IF pc0 = "mode" /\ active_demo = "SpinningTeapot" THEN teapot_from(1)
    ELSE IF pc0 = "mesh" THEN teapot_from(mesh_i + 1)
    ELSE after_enqueue

GenPoll == Poll(MaxGenPolls)

\* enqueue_blocking, arm Ok(()): the command is in the queue, return.
GenEnqueueOk ==
    /\ InEnqueueBlocking
    /\ \E cmd \in {gen_pending_cmd} :
       \E r \in {producer_enqueue(head, tail, buffer, cmd)} :
       \E next \in {gen_after_enqueue} :
           /\ r.ok
           /\ tail' = r.tail
           /\ buffer' = r.buffer
           /\ enq_result' = "Ok"
           /\ enq_returned' = r.returned
           /\ spinning' = FALSE
           /\ sent' = IF spinning THEN sent ELSE Append(sent, cmd)
           /\ iter_cmds' = IF spinning THEN iter_cmds ELSE Append(iter_cmds, cmd)
           /\ pc0' = next.pc0
           /\ mesh_i' = next.mesh_i
           /\ angle' = next.angle
    /\ UNCHANGED <<active_demo, needs_init, polls, head, frame_count,
                   cmds_this_frame, idle_spins, exec_ret, spi_failed,
                   executed, draw_fb, display_fb>>
    /\ UNCHANGED <<drvVars, xVars>>

\* enqueue_blocking, arm Err(_returned_cmd): queue full, spin and retry.
GenEnqueueFull ==
    /\ InEnqueueBlocking
    /\ \E cmd \in {gen_pending_cmd} :
       \E r \in {producer_enqueue(head, tail, buffer, cmd)} :
           /\ ~r.ok
           /\ tail' = r.tail
           /\ buffer' = r.buffer
           /\ enq_result' = "Full"
           /\ enq_returned' = r.returned
           /\ spinning' = TRUE
           /\ sent' = IF spinning THEN sent ELSE Append(sent, cmd)
           /\ iter_cmds' = IF spinning THEN iter_cmds ELSE Append(iter_cmds, cmd)
    /\ UNCHANGED <<pc0, mesh_i, angle, active_demo, needs_init, polls, head,
                   frame_count, cmds_this_frame, idle_spins, exec_ret,
                   spi_failed, executed, draw_fb, display_fb>>
    /\ UNCHANGED <<drvVars, xVars>>

GenNext ==
    \/ GenPoll
    \/ GenEnqueueOk
    \/ GenEnqueueFull

GeneratorSpec == Init /\ [][GenNext]_vars

(***************************************************************************)
(* Properties of the generating loop.                                      *)
(***************************************************************************)
IsUpload(c) == c.kind = "UploadTexture"

IsTexturedTriangle(c) == c.kind = "SubmitScreenTriangle" /\ c.textured

\* A SetRenderMode of a demo other than the textured one.
IsOtherMode(c) ==
    c.kind = "SetRenderMode" /\ c # mode_cmd("TexturedTriangle")

\* C18: needs_init is true after Scene::new.  When the loop leaves the poll
\* the flag is clear, and the one-time setup has run exactly if the flag
\* was set before or the event selected a demo other than the active one:
\* UploadTexture is the next command exactly if that holds and the demo is
\* the textured one, and a selection of the active demo with the flag clear
\* goes straight to the frame with the teapot angle as it was.  So in the
\* commands sent, UploadTexture is the first command of its iteration,
\* every textured triangle follows an UploadTexture of its own selection,
\* and between two UploadTextures another demo was drawn.
C18_UploadOncePerSwitch ==
    /\ []((polls = 0 /\ pc0 = "poll") => needs_init)
    /\ [][(pc0 = "poll" /\ pc0' # "poll") =>
            /\ needs_init' = FALSE
            /\ (pc0' = "upload") <=>
                    /\ active_demo' = "TexturedTriangle"
                    /\ (needs_init \/ active_demo # "TexturedTriangle")
            /\ (active_demo' = active_demo /\ ~needs_init) =>
                    (pc0' = "clear" /\ angle' = angle)
            /\ (active_demo' = "SpinningTeapot" /\ active_demo' # active_demo)
                    => angle' = 0]_vars
    /\ [][(pc0' = "upload" /\ pc0 # "upload") => pc0 = "poll"]_vars
    /\ [](\A k \in 1..Len(iter_cmds) : IsUpload(iter_cmds[k]) => k = 1)
    /\ [](\A k \in 1..Len(sent) :
            IsTexturedTriangle(sent[k]) =>
                \E j \in 1..(k - 1) :
                    /\ IsUpload(sent[j])
                    /\ \A i \in (j + 1)..(k - 1) :
                            ~IsUpload(sent[i]) /\ ~IsOtherMode(sent[i]))
    /\ [](\A j, k \in 1..Len(sent) :
            (j < k /\ IsUpload(sent[j]) /\ IsUpload(sent[k])) =>
                \E i \in (j + 1)..(k - 1) : IsOtherMode(sent[i]))

\* The textured demo has been selected, left and selected again: two
\* UploadTextures have been sent, and the last command is a textured
\* triangle.
C18_Witness ==
    /\ Cardinality({k \in 1..Len(sent) : IsUpload(sent[k])}) = 2
    /\ Len(sent) > 0
    /\ IsTexturedTriangle(sent[Len(sent)])

\* The first frame is a teapot frame: it starts on the empty queue.
TeapotFrameFirst ==
    /\ Len(sent) > 0
    /\ sent[1] = clear_cmd("SpinningTeapot")

InFlight ==
    queue_contents(head, tail, buffer)
    \o (IF spinning THEN <<enq_returned>> ELSE << >>)

\* C1: in every reachable state the commands executed by Core 1, followed
\* by the commands in flight, are exactly the commands passed to
\* enqueue_blocking, in order; so the executed sequence is a prefix of the
\* sequence passed to enqueue_blocking, with nothing dropped, duplicated or
\* reordered.
C1_ExecutedPrefixOfSent ==
    /\ Len(executed) <= Len(sent)
    /\ \A i \in 1..Len(executed) : executed[i] = sent[i]
    /\ sent = executed \o InFlight

\* Both cores have run: several commands executed, several still queued.
C1_Witness ==
    /\ Len(executed) >= 8
    /\ queue_len(head, tail) >= 2
    /\ Len(sent) >= Len(executed) + 2

\* C2: while enqueue_blocking spins on a full queue it retries the same
\* command; a call of enqueue_blocking returns only in a step that puts its
\* command in the queue; and under fair scheduling of Core 1 every spinning
\* call eventually returns.
C2_EnqueueBlockingReturns ==
    /\ [][spinning /\ spinning' =>
            /\ enq_returned' = enq_returned
            /\ pc0' = pc0
            /\ sent' = sent
            /\ tail' = tail]_vars
    /\ [][(pc0 \in EnqueuePcs /\ <<pc0', mesh_i'>> # <<pc0, mesh_i>>) =>
            /\ ~spinning'
            /\ tail' = (tail + 1) % QUEUE_CAPACITY
            /\ buffer'[tail] = pending_cmd
            /\ spinning => pending_cmd = enq_returned
            /\ queue_len(head', tail') = queue_len(head, tail) + 1]_vars
    /\ (spinning ~> ~spinning)

\* enqueue_blocking has found the queue full and is spinning.
C2_Witness ==
    /\ spinning
    /\ pc0 \in EnqueuePcs
    /\ (tail + 1) % QUEUE_CAPACITY = head

\* The variables only Core 0 writes, and those only Core 1 writes.
core0Vars == <<pc0, active_demo, needs_init, angle, mesh_i, spinning,
               enq_result, enq_returned, polls, tail, sent, iter_cmds>>

core1Vars == <<head, frame_count, cmds_this_frame, idle_spins,
               exec_ret, spi_failed, executed, draw_fb, display_fb>>

\* C3: the number of occupied slots is always within 0..QUEUE_CAPACITY; an
\* enqueue attempted on a full queue returns at once with Err carrying the
\* rejected command and leaves the queue as it was; a dequeue attempted on
\* an empty queue returns at once with None and leaves the queue as it was.
C3_QueueBounds ==
    /\ [](queue_len(head, tail) \in 0..QUEUE_CAPACITY)
    /\ [][(/\ core0Vars' # core0Vars
           /\ pc0 \in EnqueuePcs
           /\ (tail + 1) % QUEUE_CAPACITY = head) =>
            /\ enq_result' = "Full"
            /\ enq_returned' = pending_cmd
            /\ <<head', tail', buffer'>> = <<head, tail, buffer>>]_vars
    /\ [][(/\ core1Vars' # core1Vars
           /\ head = tail) =>
            /\ executed' = executed
            /\ exec_ret' = exec_ret
            /\ idle_spins' = idle_spins + 1
            /\ <<head', tail', buffer'>> = <<head, tail, buffer>>]_vars

\* Core 1 has dequeued from the empty queue, and later Core 0 has been
\* refused by the full queue.
C3_Witness ==
    /\ idle_spins = 1
    /\ enq_result = "Full"
    /\ enq_returned = pending_cmd
    /\ queue_len(head, tail) = QUEUE_CAPACITY - 1

\* C7: once a bus operation has failed while Core 1 executed a command,
\* Core 1 executes no further command.
C7_HaltsAfterFailure == [][spi_failed => executed' = executed]_vars

\* C10: among the commands enqueued in one iteration of the main loop,
\* WaitVsync occurs only in the last position, hence at most once; and when
\* Core 0 is back at the top of the loop the iteration just finished ends
\* with WaitVsync.
C10_VsyncLastInFrame ==
    /\ \A i \in 1..Len(iter_cmds) :
          iter_cmds[i].kind = "WaitVsync" => i = Len(iter_cmds)
    /\ (pc0 = "poll" /\ sent # << >>) =>
          /\ iter_cmds # << >>
          /\ iter_cmds[Len(iter_cmds)] = WaitVsync
    /\ pc0 \in (EnqueuePcs \ {"vsync"}) =>
          \A i \in 1..Len(iter_cmds) : iter_cmds[i].kind # "WaitVsync"

\* An iteration of the teapot demo is complete.
C10_Witness ==
    /\ pc0 = "poll"
    /\ Len(iter_cmds) >= 4
    /\ iter_cmds[1].kind = "ClearFramebuffer"
    /\ iter_cmds[Len(iter_cmds)].kind = "WaitVsync"
    /\ \E i \in 1..Len(iter_cmds) : iter_cmds[i].kind = "SubmitScreenTriangle"

(***************************************************************************)
(* Specification of the driver on an arbitrary transport: one operation of *)
(* GpuDriver (driver.rs) or one execute (commands.rs) at a time, one       *)
(* register access per step.  The transport is any implementation of       *)
(* SpiTransport (pico-gs-hal): each call returns Ok or Err(E).             *)
(***************************************************************************)
\* The errors E of the transport.
TransportErrors == {"E1", "E2"}

\* What the ID register of the device may read: the expected device id
\* without version bits, with some (among them the word of driver_tests.rs
\* make_driver, 0x0000_0A00_0000_6702) and with all of them set; and
\* foreign values: zero, all ones, the expected id one field up, and the
\* expected id with its lowest bit changed.
IdValues == {U64(EXPECTED_DEVICE_ID, 0, 0, 0), U64(EXPECTED_DEVICE_ID, 2, 0, 0),
             U64(EXPECTED_DEVICE_ID, 0, 2560, 0),
             U64(EXPECTED_DEVICE_ID, 65535, 65535, 65535),
             U64Zero, U64(65535, 65535, 65535, 65535),
             U64(0, EXPECTED_DEVICE_ID, 0, 0),
             U64(EXPECTED_DEVICE_ID + 1, 0, 2560, 0)}

\* A GpuError that takes the place of the transport's.
gpu_error_from_other(e) == [ret |-> "GpuNotDetected", err |-> "none"]

\* impl From<E> for GpuError<E>: GpuError::Transport(e).
gpu_error_from(e) == [ret |-> "Transport", err |-> e]

\* A driver that goes on after a failed access.
try_access_ignore(out) == [ret |-> "Running", err |-> "none"]

\* GpuDriver::write and read, and the `?` after each call of them: go on
\* after Ok, return the converted error after Err(e).
try_access(out) ==
    IF out = "Ok" THEN [ret |-> "Running", err |-> "none"]
    ELSE gpu_error_from(out)

\* The register accesses among the steps of an operation.
Accesses(steps) == SelectSeq(steps, LAMBDA st : st.ins \in {"W", "R"})

\* What a slot of buf holds before read_memory, and what the device may
\* return to a read of MEM_DATA.
OldDword == U64(61166, 61166, 61166, 61166)

ReadValues == {U64(1, 0, 0, 0), U64(2, 0, 0, 32768)}

\* A caller enters an operation.
Call(op, arg, steps, okret) ==
    /\ d_ret # "Running"
    /\ d_op' = op
    /\ d_arg' = arg
    /\ d_steps' = steps
    /\ d_i' = 1
    /\ d_okret' = okret
    /\ d_ret' = IF steps = << >> THEN okret ELSE "Running"
    /\ d_err' = "none"
    /\ t_err' = "none"
    /\ t_fail_at' = 0
    /\ d_log' = << >>
    /\ d_buf' = IF op = "read_memory" THEN [i \in 1..arg.n |-> OldDword]
               ELSE << >>
    /\ d_rx' = << >>
    /\ v_pc' = "idle"
    /\ v_seen' = << >>
    /\ UNCHANGED <<vsync, coreVars, xVars>>

\* GpuDriver::new(spi) is called; `id` is what the device's ID register holds.
DNew ==
    \E id \in IdValues :
        /\ Call("new", [id |-> id], new_steps(id), new_ret(id))
        /\ d_driver' = FALSE
        /\ draw_fb' = InitDrawFb
        /\ display_fb' = InitDisplayFb

\* The arguments the operations are called with.
UploadArgs == {[dword_addr |-> 0, data |-> << >>],
               [dword_addr |-> 4096, data |-> CHECKERBOARD_64.data]}

ReadArgs == {[dword_addr |-> a, n |-> n] : a \in {0, 4096}, n \in 0..TexWords}

TriangleArgs == {[v |-> gouraud_triangle_vertices, textured |-> FALSE],
                 [v |-> textured_triangle_vertices, textured |-> TRUE],
                 [v |-> textured_triangle_vertices, textured |-> FALSE]}

ExecuteArgs ==
    {WaitVsync, UploadTexture(TEXTURE_BASE_ADDR, TEX_ID_CHECKERBOARD),
     UploadTexture(TEXTURE_BASE_ADDR, TEX_ID_CHECKERBOARD + 1)}
    \cup {clear_cmd(d) : d \in Demo}
    \cup {mode_cmd(d) : d \in Demo}
    \cup {tri_cmd(d) : d \in Demo}

DUploadMemory ==
    /\ d_driver
    /\ \E a \in UploadArgs :
          Call("upload_memory", a, upload_memory_steps(a.dword_addr, a.data), "Ok")
    /\ UNCHANGED <<d_driver, fbVars>>

DReadMemory ==
    /\ d_driver
    /\ \E a \in ReadArgs :
          Call("read_memory", a, read_memory_steps(a.dword_addr, a.n), "Ok")
    /\ UNCHANGED <<d_driver, fbVars>>

DSubmitTriangle ==
    /\ d_driver
    /\ \E a \in TriangleArgs :
          Call("submit_triangle", a,
               submit_triangle_steps(a.v[1], a.v[2], a.v[3], a.textured), "Ok")
    /\ UNCHANGED <<d_driver, fbVars>>

DSwapBuffers ==
    /\ d_driver
    /\ Call("swap_buffers", [draw_fb |-> draw_fb, display_fb |-> display_fb],
            swap_buffers_steps(draw_fb, display_fb), "Ok")
    /\ UNCHANGED <<d_driver, fbVars>>

\* commands::execute(gpu, cmd, textures).
DExecute ==
    /\ d_driver
    /\ \E cmd \in ExecuteArgs :
          Call("execute", cmd, execute_steps(cmd, draw_fb, display_fb), "Ok")
    /\ UNCHANGED <<d_driver, fbVars>>

\* `b as u64` for a bool.
BoolBit(b) == IF b THEN 1 ELSE 0

\* GpuDriver::set_render_mode with alpha_test in bit 16, on top of
\* stipple_en.
set_render_mode_steps_alpha_test_low(a) ==
    << W(RENDER_MODE,
         Or64(Or64(Or64(Or64(Or64(Or64(Or64(Or64(Or64(Or64(
             U64FromNat(BoolBit(a.gouraud)),
             Shl64(U64FromNat(BoolBit(a.z_test)), 2)),
             Shl64(U64FromNat(BoolBit(a.z_write)), 3)),
             Shl64(U64FromNat(BoolBit(a.color_write)), 4)),
             Shl64(U64FromNat(a.cull_mode), 5)),
             Shl64(U64FromNat(a.alpha_blend), 7)),
             Shl64(U64FromNat(BoolBit(a.dither)), 10)),
             Shl64(U64FromNat(a.z_compare), 13)),
             Shl64(U64FromNat(BoolBit(a.stipple_en)), 16)),
             Shl64(U64FromNat(a.alpha_test), 16)),
             Shl64(U64FromNat(a.alpha_ref), 19))) >>

\* GpuDriver::set_render_mode: the eleven arguments are shifted to their
\* positions, ORed, and written to RENDER_MODE in one write.
set_render_mode_steps(a) ==
    << W(RENDER_MODE,
         Or64(Or64(Or64(Or64(Or64(Or64(Or64(Or64(Or64(Or64(
             U64FromNat(BoolBit(a.gouraud)),
             Shl64(U64FromNat(BoolBit(a.z_test)), 2)),
             Shl64(U64FromNat(BoolBit(a.z_write)), 3)),
             Shl64(U64FromNat(BoolBit(a.color_write)), 4)),
             Shl64(U64FromNat(a.cull_mode), 5)),
             Shl64(U64FromNat(a.alpha_blend), 7)),
             Shl64(U64FromNat(BoolBit(a.dither)), 10)),
             Shl64(U64FromNat(a.z_compare), 13)),
             Shl64(U64FromNat(BoolBit(a.stipple_en)), 16)),
             Shl64(U64FromNat(a.alpha_test), 17)),
             Shl64(U64FromNat(a.alpha_ref), 19))) >>

\* set_render_mode with every argument false / variant 0 / alpha_ref 0.
RenderModeOff ==
    [gouraud |-> FALSE, z_test |-> FALSE, z_write |-> FALSE,
     color_write |-> FALSE, z_compare |-> 0, alpha_blend |-> 0,
     cull_mode |-> 0, dither |-> FALSE, stipple_en |-> FALSE,
     alpha_test |-> 0, alpha_ref |-> 0]

\* Every argument at its largest value: ZCompareE::Never, AlphaBlendE::Blend,
\* CullModeE::CullCcw, AlphaTestE::AtNotequal, alpha_ref 255.
RenderModeFull ==
    [gouraud |-> TRUE, z_test |-> TRUE, z_write |-> TRUE,
     color_write |-> TRUE, z_compare |-> 7, alpha_blend |-> 3,
     cull_mode |-> 2, dither |-> TRUE, stipple_en |-> TRUE,
     alpha_test |-> 3, alpha_ref |-> 255]

\* The argument tuples set_render_mode is called with: all off, all at
\* their largest, each argument alone at its largest, all but one at their
\* largest, and the tuples of render_mode_tests.
RenderModeArgs ==
    {RenderModeOff, RenderModeFull}
    \cup {[RenderModeOff EXCEPT ![f] = RenderModeFull[f]] :
             f \in DOMAIN RenderModeOff}
    \cup {[RenderModeFull EXCEPT ![f] = RenderModeOff[f]] :
             f \in DOMAIN RenderModeOff}
    \cup {[RenderModeOff EXCEPT !.color_write = TRUE, !.dither = TRUE],
          [RenderModeOff EXCEPT !.z_test = TRUE, !.color_write = TRUE,
                                !.cull_mode = 1, !.dither = TRUE],
          [RenderModeOff EXCEPT !.z_compare = 5, !.alpha_test = 1,
                                !.alpha_ref = 128, !.cull_mode = 1,
                                !.alpha_blend = 1]}

DSetRenderMode ==
    /\ d_driver
    /\ \E a \in RenderModeArgs :
          Call("set_render_mode", a, set_render_mode_steps(a), "Ok")
    /\ UNCHANGED <<d_driver, fbVars>>

\* GpuDriver::gpu_mem_fill: base | value << 16 | count << 32, written to
\* MEM_FILL.  Nothing masks `count`.
gpu_mem_fill_steps(base, value, count) ==
    << W(MEM_FILL,
         Or64(Or64(U64FromNat(base),
                   Shl64(U64FromNat(value), MEM_FILL_VALUE_SHIFT)),
              Shl64(U64FromNat(count), MEM_FILL_COUNT_SHIFT))) >>

\* 2^20 = 1,048,576, the largest count gpu_mem_fill documents.
MEM_FILL_MAX_COUNT == 1048576

\* gpu_mem_fill's arguments: the base of the tests and the largest, values
\* at both ends of u16, counts from 0 to the documented maximum.
MemFillArgs ==
    {[base |-> b, value |-> v, count |-> c] :
        b \in {256, 65535}, v \in {0, 65535},
        c \in {0, 1024, MEM_FILL_MAX_COUNT - 1, MEM_FILL_MAX_COUNT}}

DMemFill ==
    /\ d_driver
    /\ \E a \in MemFillArgs :
          Call("gpu_mem_fill", a, gpu_mem_fill_steps(a.base, a.value, a.count),
               "Ok")
    /\ UNCHANGED <<d_driver, fbVars>>

\* GpuDriver::gpu_set_scissor: each argument masked to 10 bits, shifted to
\* bit 0, 10, 20, 30 and written to FB_CONTROL.
gpu_set_scissor_steps(x, y, width, height) ==
    << W(FB_CONTROL,
         Or64(Or64(And64(U64FromNat(x), U64FromNat(1023)),
                   Shl64(And64(U64FromNat(y), U64FromNat(1023)), 10)),
              Or64(Shl64(And64(U64FromNat(width), U64FromNat(1023)), 20),
                   Shl64(And64(U64FromNat(height), U64FromNat(1023)), 30)))) >>

\* gpu_set_scissor's arguments: x and y over 0..=1023, width and height
\* over 1..=1024, at the ends of the ranges and the values of scissor_tests.
ScissorArgs ==
    {[x |-> x, y |-> y, width |-> w, height |-> h] :
        x \in {10, 1023}, y \in {0, 1023},
        w \in {1, 640, 1024}, h \in {480, 1024}}

DSetScissor ==
    /\ d_driver
    /\ \E a \in ScissorArgs :
          Call("gpu_set_scissor", a,
               gpu_set_scissor_steps(a.x, a.y, a.width, a.height), "Ok")
    /\ UNCHANGED <<d_driver, fbVars>>

\* gpu_set_fb_config's arguments: the configuration of fb_config_tests and
\* one with other sizes.
FbConfigArgs ==
    {[color_base |-> 256, z_base |-> 512, width_log2 |-> 9, height_log2 |-> 9],
     [color_base |-> 3072, z_base |-> 2048, width_log2 |-> 8,
      height_log2 |-> 7]}

\* GpuDriver::gpu_set_fb_config: self.draw_fb is assigned, then FB_CONFIG
\* is written.  d_arg keeps the tracked configuration the call found.
DSetFbConfig ==
    /\ d_driver
    /\ \E a \in FbConfigArgs :
          /\ Call("gpu_set_fb_config",
                  [draw_fb |-> draw_fb, display_fb |-> display_fb],
                  << W(FB_CONFIG,
                       pack_fb_config(a.color_base, a.z_base, a.width_log2,
                                      a.height_log2)) >>, "Ok")
          /\ draw_fb' = <<a.color_base, a.z_base, a.width_log2, a.height_log2>>
    /\ UNCHANGED <<d_driver, display_fb>>

\* What the operation is after step d_i went through.
Advance ==
    /\ d_i' = d_i + 1
    /\ d_ret' = IF d_i = Len(d_steps) THEN d_okret ELSE "Running"
    /\ d_driver' = IF d_op = "new" /\ d_i = Len(d_steps) /\ d_okret = "Ok"
                   THEN TRUE ELSE d_driver

\* The operation in progress exchanges draw_fb and display_fb
\* (core::mem::swap in swap_buffers): no register access.
DLocal ==
    /\ d_ret = "Running"
    /\ d_steps[d_i].ins = "S"
    /\ Advance
    /\ draw_fb' = display_fb
    /\ display_fb' = draw_fb
    /\ UNCHANGED <<d_op, d_arg, d_steps, d_okret, d_err, t_err, t_fail_at,
                   d_log, d_buf, d_rx, v_pc, v_seen, vsync, coreVars,
                   xVars>>

\* self.vsync.is_high().unwrap_or(false): reading the pin cannot fail.
vsync_is_high == vsync

\* The samples of a call after one more sample that read `level`.
sampled(seen, level) ==
    IF seen # << >> /\ seen[Len(seen)] = level THEN seen
    ELSE Append(seen, level)

\* A wait_vsync without its first loop: it goes straight to waiting for a
\* high level.
DWaitVsyncLow_skipped ==
    /\ d_ret = "Running"
    /\ d_steps[d_i].ins = "V"
    /\ v_pc \in {"idle", "wait_low"}
    /\ v_pc' = "wait_high"
    /\ v_seen' = v_seen
    /\ UNCHANGED <<d_driver, d_op, d_arg, d_steps, d_i, d_okret, d_ret, d_err,
                   t_err, t_fail_at, d_log, d_buf, d_rx, vsync, fbVars,
                   coreVars, xVars>>

\* Rp2350Transport::wait_vsync, first loop: spin while VSYNC is high.
DWaitVsyncLow ==
    /\ d_ret = "Running"
    /\ d_steps[d_i].ins = "V"
    /\ v_pc \in {"idle", "wait_low"}
    /\ v_pc' = IF vsync_is_high THEN "wait_low" ELSE "wait_high"
    /\ v_seen' = sampled(v_seen, vsync_is_high)
    /\ UNCHANGED <<d_driver, d_op, d_arg, d_steps, d_i, d_okret, d_ret, d_err,
                   t_err, t_fail_at, d_log, d_buf, d_rx, vsync, fbVars,
                   coreVars, xVars>>

\* Rp2350Transport::wait_vsync, second loop: spin while VSYNC is low, and
\* return at the first sample that reads high.
DWaitVsyncHigh ==
    /\ d_ret = "Running"
    /\ d_steps[d_i].ins = "V"
    /\ v_pc = "wait_high"
    /\ v_seen' = sampled(v_seen, vsync_is_high)
    /\ IF vsync_is_high
       THEN v_pc' = "returned" /\ Advance
       ELSE UNCHANGED <<v_pc, d_i, d_ret, d_driver>>
    /\ UNCHANGED <<d_op, d_arg, d_steps, d_okret, d_err, t_err, t_fail_at,
                   d_log, d_buf, d_rx, vsync, fbVars, coreVars, xVars>>

\* The display raises or lowers VSYNC.
DVsyncPin ==
    /\ vsync' = ~vsync
    /\ UNCHANGED <<d_driver, d_op, d_arg, d_steps, d_i, d_okret, d_ret, d_err,
                   t_err, t_fail_at, d_log, d_buf, d_rx, v_pc, v_seen,
                   fbVars,
                   coreVars, xVars>>

\* The operation in progress makes its next register access and the
\* transport returns Ok.
DAccessOk ==
    /\ d_ret = "Running"
    /\ d_steps[d_i].ins \in {"W", "R"}
    /\ d_log' = Append(d_log, d_steps[d_i])
    /\ IF d_op = "read_memory" /\ d_steps[d_i].ins = "R"
       THEN \E v \in ReadValues :
                /\ d_rx' = Append(d_rx, v)
                /\ d_buf' = [d_buf EXCEPT ![d_i - 1] = v]
       ELSE UNCHANGED <<d_buf, d_rx>>
    /\ LET a == try_access("Ok")
       IN  IF a.ret = "Running"
           THEN Advance /\ d_err' = d_err
           ELSE d_ret' = a.ret /\ d_err' = a.err /\ UNCHANGED <<d_i, d_driver>>
    /\ UNCHANGED <<d_op, d_arg, d_steps, d_okret, t_err, t_fail_at, v_pc,
                   v_seen,
                   vsync, fbVars, coreVars, xVars>>

\* The operation in progress makes its next register access and the
\* transport returns Err(e).
DAccessErr ==
    /\ d_ret = "Running"
    /\ d_steps[d_i].ins \in {"W", "R"}
    /\ d_log' = Append(d_log, d_steps[d_i])
    /\ \E e \in TransportErrors :
        /\ t_err' = (IF t_err = "none" THEN e ELSE t_err)
        /\ t_fail_at' = (IF t_fail_at = 0 THEN Len(d_log) + 1 ELSE t_fail_at)
        /\ LET a == try_access(e)
           IN  IF a.ret = "Running"
               THEN Advance /\ d_err' = d_err
               ELSE d_ret' = a.ret /\ d_err' = a.err
                    /\ UNCHANGED <<d_i, d_driver>>
    /\ UNCHANGED <<d_op, d_arg, d_steps, d_okret, d_buf, d_rx, v_pc, v_seen,
                   vsync,
                   fbVars, coreVars, xVars>>

DriverInit == CoreInit /\ FbInit /\ DrvIdle /\ XIdle

DriverNext ==
    \/ DNew
    \/ DUploadMemory
    \/ DReadMemory
    \/ DSubmitTriangle
    \/ DSwapBuffers
    \/ DExecute
    \/ DSetRenderMode
    \/ DMemFill
    \/ DSetScissor
    \/ DLocal
    \/ DWaitVsyncLow
    \/ DWaitVsyncHigh
    \/ DVsyncPin
    \/ DAccessOk
    \/ DAccessErr

DriverSpec == DriverInit /\ [][DriverNext]_vars

(***************************************************************************)
(* Properties of the driver.                                               *)
(***************************************************************************)
\* The number of accesses in `log` that write register `addr`.
WritesTo(log, addr) ==
    Cardinality({i \in 1..Len(log) : log[i].ins = "W" /\ log[i].addr = addr})

IsPrefix(p, q) ==
    /\ Len(p) <= Len(q)
    /\ \A i \in 1..Len(p) : p[i] = q[i]

\* C4: the first access of GpuDriver::new is the read of ID; when that read
\* succeeds and the low 16 bits differ from EXPECTED_DEVICE_ID, new returns
\* GpuNotDetected without any write to FB_CONFIG or FB_DISPLAY; new returns
\* Ok only for a matching id, after exactly one write to FB_CONFIG and
\* exactly one to FB_DISPLAY.
C4_NewChecksIdFirst ==
    d_op = "new" =>
        /\ d_log # << >> => d_log[1] = R(ID)
        /\ d_ret # "Running" => d_log # << >>
        /\ (/\ d_ret # "Running"
            /\ d_arg.id[1] # EXPECTED_DEVICE_ID
            /\ t_err = "none") => d_ret = "GpuNotDetected"
        /\ d_ret = "GpuNotDetected" =>
              /\ d_arg.id[1] # EXPECTED_DEVICE_ID
              /\ WritesTo(d_log, FB_CONFIG) = 0
              /\ WritesTo(d_log, FB_DISPLAY) = 0
              /\ ~d_driver
        /\ d_ret = "Ok" =>
              /\ d_arg.id[1] = EXPECTED_DEVICE_ID
              /\ WritesTo(d_log, FB_CONFIG) = 1
              /\ WritesTo(d_log, FB_DISPLAY) = 1
              /\ d_driver
        /\ (/\ d_ret # "Running"
            /\ d_arg.id[1] = EXPECTED_DEVICE_ID
            /\ t_err = "none") => d_ret = "Ok"

\* new has returned GpuNotDetected for a device with a foreign id.
C4_Witness ==
    /\ d_op = "new"
    /\ d_ret = "GpuNotDetected"
    /\ d_arg.id = U64(65535, 65535, 65535, 65535)
    /\ d_log = << R(ID) >>

KickRegisters == {VERTEX_KICK_012, VERTEX_KICK_021}

\* C5: a submit_triangle that returned Ok has written, for v0, v1 and v2 in
\* this order, COLOR, then UV0_UV1 if and only if textured, then the
\* position, to VERTEX_NOKICK for v0 and v1 and to VERTEX_KICK_012 for v2:
\* 6 writes untextured, 9 textured, of which exactly one is a kick, the last.
C5_SubmitTriangleOrder ==
    (d_op = "submit_triangle" /\ d_ret = "Ok") =>
        LET per == IF d_arg.textured THEN 3 ELSE 2
            n == Len(d_log)
        IN  /\ n = (IF d_arg.textured THEN 9 ELSE 6)
            /\ \A j \in 0..2 :
                  LET v == d_arg.v[j + 1]
                      base == j * per
                  IN  /\ d_log[base + 1] = W(COLOR, v.color_packed)
                      /\ d_arg.textured =>
                            d_log[base + 2] = W(UV0_UV1, v.uv_packed)
                      /\ d_log[base + per] =
                            W(IF j < 2 THEN VERTEX_NOKICK ELSE VERTEX_KICK_012,
                              v.position_packed)
            /\ ~d_arg.textured => WritesTo(d_log, UV0_UV1) = 0
            /\ Cardinality({i \in 1..n : d_log[i].addr \in KickRegisters}) = 1
            /\ d_log[n].addr = VERTEX_KICK_012

\* A textured submit_triangle has returned Ok.
C5_Witness ==
    /\ d_op = "submit_triangle"
    /\ d_ret = "Ok"
    /\ d_arg.textured
    /\ Len(d_log) = 9

MultiWriteOps ==
    {"new", "upload_memory", "read_memory", "submit_triangle", "swap_buffers"}

\* C6: the accesses a multi-write operation has issued are a prefix of the
\* accesses of its success sequence; once a transport call has failed the
\* operation has returned and the failed access is the last one issued; a
\* submit_triangle whose failure came before its last write has written no
\* kick register.
C6_FailureStopsOperation ==
    d_op \in MultiWriteOps =>
        /\ IsPrefix(d_log, Accesses(d_steps))
        /\ t_err # "none" =>
              /\ d_ret # "Running"
              /\ d_ret # "Ok"
              /\ Len(d_log) = t_fail_at
        /\ (/\ d_op = "submit_triangle"
            /\ t_err # "none"
            /\ t_fail_at < Len(Accesses(d_steps))) =>
              \A i \in 1..Len(d_log) : d_log[i].addr \notin KickRegisters

\* A submit_triangle has failed at the position write of v1.
C6_Witness ==
    /\ d_op = "submit_triangle"
    /\ ~d_arg.textured
    /\ t_err # "none"
    /\ t_fail_at = 4
    /\ d_log[4].addr = VERTEX_NOKICK

\* C8: an operation (a driver operation or execute) in which a transport
\* call returned Err(E) has returned Transport(E) with that same E, and it
\* made no access after the failed one; an operation returns Transport(E)
\* only if a transport call returned Err(E).
C8_TransportErrorVerbatim ==
    /\ t_err # "none" =>
          /\ d_ret = "Transport"
          /\ d_err = t_err
          /\ Len(d_log) = t_fail_at
    /\ d_ret = "Transport" =>
          /\ t_err \in TransportErrors
          /\ d_err = t_err

\* execute of a clear has returned Transport("E2") from a failed write.
C8_Witness ==
    /\ d_op = "execute"
    /\ d_arg.kind = "ClearFramebuffer"
    /\ d_ret = "Transport"
    /\ d_err = "E2"
    /\ t_err = "E2"
    /\ t_fail_at >= 3

\* C11: while execute of WaitVsync has not seen wait_vsync return, it has
\* issued no register access, so neither the FB_CONFIG nor the FB_DISPLAY
\* write of the swap, and draw_fb and display_fb are as they were;
\* wait_vsync returns only on a sample of VSYNC that reads high, taken after
\* a sample that read low; the execute that returned Ok made exactly the
\* two writes of the swap after the wait.
C11_SwapAfterVsyncWait ==
    /\ [][(/\ d_op' = "execute"
           /\ d_arg'.kind = "WaitVsync"
           /\ v_pc' # "returned") =>
            /\ d_log' = << >>
            /\ fbVars' = fbVars
            /\ d_ret' = "Running"]_vars
    /\ [][(v_pc' = "returned" /\ v_pc # "returned") =>
            /\ v_pc = "wait_high"
            /\ vsync]_vars
    /\ [][v_pc' = "wait_high" => (v_pc = "wait_high" \/ ~vsync)]_vars
    /\ []((d_op = "execute" /\ d_arg.kind = "WaitVsync" /\ d_ret = "Ok") =>
            /\ v_pc = "returned"
            /\ Len(d_log) = 2
            /\ d_log[1].addr = FB_CONFIG
            /\ d_log[2].addr = FB_DISPLAY)

\* execute of WaitVsync has waited through a high and a low level of VSYNC
\* and has then written both registers of the swap.
C11_Witness ==
    /\ d_op = "execute"
    /\ d_arg.kind = "WaitVsync"
    /\ d_ret = "Ok"
    /\ v_pc = "returned"
    /\ WritesTo(d_log, FB_CONFIG) = 1
    /\ WritesTo(d_log, FB_DISPLAY) = 1
    /\ draw_fb = InitDisplayFb

\* C12: once new has returned Ok, the tracked draw and display colour bases
\* are always the two initial bases FB_A_BASE_512 and FB_B_BASE_512, one
\* each; the tracked pair changes only by being exchanged, so two swaps in
\* a row bring back the pair they started from; a swap_buffers that
\* returned Ok has written exactly FB_CONFIG with the draw configuration
\* and FB_DISPLAY with the display base as they are tracked after it.
C12_SwapExchangesBases ==
    /\ [](d_driver =>
            /\ draw_fb[1] # display_fb[1]
            /\ {draw_fb[1], display_fb[1]} = {FB_A_BASE_512, FB_B_BASE_512})
    /\ []((d_op = "new" /\ d_ret = "Ok") =>
            /\ draw_fb[1] = FB_A_BASE_512
            /\ display_fb[1] = FB_B_BASE_512)
    /\ [][(fbVars' # fbVars /\ d_op' # "new") =>
            /\ draw_fb' = display_fb
            /\ display_fb' = draw_fb]_vars
    /\ [][(d_op = "swap_buffers" /\ d_ret = "Running" /\ d_ret' = "Ok") =>
                /\ d_steps[1] = SwapStep
                /\ fbVars' = fbVars
                /\ d_log' = << W(FB_CONFIG,
                                 pack_fb_config(draw_fb[1], draw_fb[2],
                                                draw_fb[3], draw_fb[4])),
                               W(FB_DISPLAY,
                                 pack_fb_display(display_fb[1], display_fb[3])) >>
                /\ d_log'[1].data[1] = draw_fb[1]
                /\ d_log'[2].data[3] = display_fb[1]]_vars

\* The second of two successful swaps has returned: the pair is the
\* initial one again and the registers were written with it.
C12_Witness ==
    /\ d_op = "swap_buffers"
    /\ d_ret = "Ok"
    /\ t_err = "none"
    /\ draw_fb = InitDrawFb
    /\ display_fb = InitDisplayFb
    /\ d_log[1].data[1] = FB_A_BASE_512
    /\ d_log[2].data[3] = FB_B_BASE_512

\* C13: an execute of ClearFramebuffer that returned Ok has written MEM_FILL
\* exactly twice and RENDER_MODE (register 0x30) not at all when clear_depth
\* is set, and MEM_FILL exactly once when it is not.
C13_ClearUsesMemFill ==
    (d_op = "execute" /\ d_arg.kind = "ClearFramebuffer" /\ d_ret = "Ok") =>
        IF d_arg.clear_depth
        THEN /\ WritesTo(d_log, MEM_FILL) = 2
             /\ WritesTo(d_log, RENDER_MODE) = 0
        ELSE WritesTo(d_log, MEM_FILL) = 1

(***************************************************************************)
(* The device, as far as a clear shows: a write to a kick register draws   *)
(* the triangle of the last three vertex writes; each pixel it covers      *)
(* takes the colour latched by the last COLOR write when colour writes are *)
(* enabled, and the vertex depth when depth writes are enabled.  Register  *)
(* 0x30 is RENDER_MODE (gpu/registers.rs: colour writes are enabled by bit *)
(* 4) or TRI_MODE (firmware gpu/registers.rs: no colour write bit, colour  *)
(* is always written).                                                     *)
(***************************************************************************)
DeviceLayouts == {"RENDER_MODE", "TRI_MODE"}

\* The pixels of the 640x480 viewport that are looked at.
ProbePixels == {<<0, 0>>, <<639, 0>>, <<639, 479>>, <<0, 479>>, <<320, 240>>,
                <<1, 0>>, <<0, 1>>, <<638, 479>>, <<100, 400>>, <<500, 50>>}

\* What a pixel and its depth hold before the command.
OldPixel == pack_color(1, 2, 3, 4)

OldDepth == << 7, 0 >>

\* Bit k of a 16-bit limb.
BitSet(limb, k) == (limb \div Pow2(k)) % 2 = 1

ColorWriteEnabled(mode, layout) ==
    layout = "TRI_MODE" \/ BitSet(mode[1], 4)

\* The greatest index below k whose access writes one of `addrs`, or 0.
LastWriteBefore(log, k, addrs) ==
    LET is == {i \in 1..(k - 1) : log[i].ins = "W" /\ log[i].addr \in addrs}
    IN  IF is = {} THEN 0 ELSE CHOOSE i \in is : \A j \in is : j <= i

VertexRegisters == {VERTEX_NOKICK} \cup KickRegisters

\* A 12.4 coordinate as a signed number of sixteenths.
Signed16(u) == IF u >= 32768 THEN u - Limb ELSE u

\* The edge function of a -> b at point q (all in sixteenths of a pixel).
EdgeFn(a, b, q) ==
    (b[1] - a[1]) * (q[2] - a[2]) - (b[2] - a[2]) * (q[1] - a[1])

\* Pixel px lies in the triangle of the position words a, b, c (edges
\* included, either winding).
Covers(a, b, c, px) ==
    LET pa == << Signed16(a[1]), Signed16(a[2]) >>
        pb == << Signed16(b[1]), Signed16(b[2]) >>
        pc == << Signed16(c[1]), Signed16(c[2]) >>
        q == << 16 * px[1], 16 * px[2] >>
        e1 == EdgeFn(pa, pb, q)
        e2 == EdgeFn(pb, pc, q)
        e3 == EdgeFn(pc, pa, q)
    IN  \/ (e1 >= 0 /\ e2 >= 0 /\ e3 >= 0)
        \/ (e1 <= 0 /\ e2 <= 0 /\ e3 <= 0)

\* The kicks of `log` that draw on pixel px: three vertex writes are there,
\* the triangle covers px, and the depth test is off or set to ALWAYS.
DrawsOn(log, px) ==
    {k \in 1..Len(log) :
        /\ log[k].ins = "W"
        /\ log[k].addr \in KickRegisters
        /\ LET j == LastWriteBefore(log, k, VertexRegisters)
               i == LastWriteBefore(log, j, VertexRegisters)
               m == LastWriteBefore(log, k, {RENDER_MODE})
               zb == LastWriteBefore(log, k, {FB_ZBUFFER})
           IN  /\ i > 0
               /\ Covers(log[i].data, log[j].data, log[k].data, px)
               /\ \/ m = 0
                  \/ ~BitSet(log[m].data[1], 2)
                  \/ (zb > 0 /\ log[zb].data[3] % 8 = Z_COMPARE_ALWAYS[3])}

\* What pixel px holds after the accesses of `log`.
DevicePixel(log, layout, px) ==
    LET ks == {k \in DrawsOn(log, px) :
                  LET m == LastWriteBefore(log, k, {RENDER_MODE})
                  IN  m > 0 /\ ColorWriteEnabled(log[m].data, layout)}
        k == CHOOSE x \in ks : \A y \in ks : y <= x
        c == LastWriteBefore(log, k, {COLOR})
    IN  IF ks = {} THEN OldPixel
        ELSE IF c = 0 THEN U64Zero ELSE log[c].data

\* The depth pixel px holds after the accesses of `log`: the upper two
\* limbs of the position word of the last kick that wrote depth.
DeviceDepth(log, px) ==
    LET ks == {k \in DrawsOn(log, px) :
                  LET m == LastWriteBefore(log, k, {RENDER_MODE})
                  IN  m > 0 /\ BitSet(log[m].data[1], 3)}
        k == CHOOSE x \in ks : \A y \in ks : y <= x
    IN  IF ks = {} THEN OldDepth ELSE << log[k].data[3], log[k].data[4] >>

\* C14: after an execute of ClearFramebuffer{color, clear_depth} that
\* returned Ok, every pixel of the viewport holds `color`, and with
\* clear_depth every depth holds the far value, on a device of one of the
\* two register layouts.
C14_ClearFillsViewport ==
    (d_op = "execute" /\ d_arg.kind = "ClearFramebuffer" /\ d_ret = "Ok") =>
        \E layout \in DeviceLayouts :
            \A px \in ProbePixels :
                /\ DevicePixel(d_log, layout, px) =
                      pack_color(d_arg.color[1], d_arg.color[2],
                                 d_arg.color[3], d_arg.color[4])
                /\ d_arg.clear_depth =>
                      DeviceDepth(d_log, px) =
                          << f32_to_z25(Rat(1, 1)) % Limb,
                             f32_to_z25(Rat(1, 1)) \div Limb >>

(***************************************************************************)
(* Specification of the RP2350 transport (transport.rs): one call of       *)
(* write_register or read_register at a time, while the device raises and  *)
(* lowers CMD_FULL on its own.  A frame on the wire is the 9 bytes clocked  *)
(* out between chip select low and chip select high.                       *)
\* C21: the accesses of upload_memory are a prefix of one MEM_ADDR write
\* carrying the address and one MEM_DATA write per dword, in slice order,
\* and all of them once it has returned Ok; those of read_memory are a
\* prefix of one MEM_ADDR write and one MEM_DATA read per slot, and when it
\* has returned Ok buf holds what the reads returned, in order.  While
\* read_memory runs, the slots read so far hold the values returned and the
\* others what they held before.
C21_MemoryBurst ==
    /\ d_op = "upload_memory" =>
        /\ Len(d_log) <= 1 + Len(d_arg.data)
        /\ d_ret = "Ok" => Len(d_log) = 1 + Len(d_arg.data)
        /\ \A k \in 1..Len(d_log) :
              d_log[k] = IF k = 1
                         THEN [ins |-> "W", addr |-> MEM_ADDR,
                               data |-> U64(d_arg.dword_addr % Limb,
                                            d_arg.dword_addr \div Limb, 0, 0)]
                         ELSE [ins |-> "W", addr |-> MEM_DATA,
                               data |-> d_arg.data[k - 1]]
    /\ d_op = "read_memory" =>
        /\ Len(d_log) <= 1 + d_arg.n
        /\ d_ret = "Ok" => (Len(d_log) = 1 + d_arg.n /\ d_buf = d_rx)
        /\ \A k \in 1..Len(d_log) :
              IF k = 1
              THEN /\ d_log[k].ins = "W"
                   /\ d_log[k].addr = MEM_ADDR
                   /\ d_log[k].data = U64(d_arg.dword_addr % Limb,
                                          d_arg.dword_addr \div Limb, 0, 0)
              ELSE d_log[k].ins = "R" /\ d_log[k].addr = MEM_DATA
        /\ Len(d_buf) = d_arg.n
        /\ \A k \in 1..d_arg.n :
              d_buf[k] = IF k <= Len(d_rx) THEN d_rx[k] ELSE OldDword
        /\ d_ret # "Transport" => Len(d_rx) = Len(d_log) - (IF d_log = << >> THEN 0 ELSE 1)

\* upload_memory of the checkerboard has returned Ok after TexWords + 1
\* writes.
C21_Witness ==
    /\ d_op = "upload_memory"
    /\ d_ret = "Ok"
    /\ d_arg.data = CHECKERBOARD_64.data
    /\ Len(d_log) = 1 + TexWords
    /\ d_log[Len(d_log)].addr = MEM_DATA

\* read_memory of two slots has returned Ok with two different dwords.
C21_ReadWitness ==
    /\ d_op = "read_memory"
    /\ d_ret = "Ok"
    /\ d_arg.n = 2
    /\ d_buf = << U64(2, 0, 0, 32768), U64(1, 0, 0, 0) >>

\* C17: execute of an UploadTexture whose texture id the lookup does not
\* know returns Ok at once, with no register write and no register read,
\* whatever the transport would have answered, and leaves the driver and
\* its framebuffer addresses as they were.
C17_UnknownTextureIgnored ==
    /\ []((/\ d_op = "execute"
            /\ d_arg.kind = "UploadTexture"
            /\ get_texture(d_arg.texture_id) = << >>) =>
            /\ d_ret = "Ok"
            /\ d_log = << >>
            /\ d_err = "none"
            /\ t_fail_at = 0)
    /\ [][(/\ d_op' = "execute"
            /\ d_arg'.kind = "UploadTexture"
            /\ get_texture(d_arg'.texture_id) = << >>) =>
            /\ fbVars' = fbVars
            /\ d_driver' = d_driver]_vars

\* After a swap of the buffers, execute of UploadTexture with the id after
\* the last of the table has returned Ok without an access.
C17_Witness ==
    /\ d_op = "execute"
    /\ d_arg = UploadTexture(TEXTURE_BASE_ADDR, Len(TEXTURE_TABLE))
    /\ d_ret = "Ok"
    /\ d_log = << >>
    /\ draw_fb # InitDrawFb

(***************************************************************************)
\* At most MaxWire frames are sent.
MaxWire == 2

\* Byte k of a u64, k = 0 the least significant: (data >> 8k) as u8.
ByteOf(data, k) ==
    LET limb == data[(k \div 2) + 1]
    IN  IF k % 2 = 0 THEN limb % 256 ELSE limb \div 256

\* v >> k on 64 bits, 0 <= k < 64.
Shr64(v, k) ==
    LET q == k \div 16
        m == Pow2(k % 16)
        limb(i) == IF i <= 4 THEN v[i] ELSE 0
    IN  [i \in 1..4 |->
            (limb(i + q) \div m) + (limb(i + q + 1) % m) * (Limb \div m)]

\* GpuDriver::pack_write(buffer, offset, addr, data): the buffer with the
\* 9-byte frame at `offset` (counted from 0), and the returned offset + 9.
pack_write(buf, offset, addr, data) ==
    LET byte(shift) == And64(Shr64(data, shift), U64FromNat(255))[1]
    IN  [buffer |->
            [i \in DOMAIN buf |->
                IF i = offset + 1 THEN And16(addr, 127)
                ELSE IF i >= offset + 2 /\ i <= offset + 9
                THEN byte(56 - 8 * (i - offset - 2))
                ELSE buf[i]],
         next |-> offset + 9]

\* A write_register that sends the data least-significant byte first.
write_frame_lsb_first(addr, data) ==
    << And16(addr, 127) >> \o [i \in 1..8 |-> ByteOf(data, i - 1)]

\* write_register: [addr & 0x7F, data MSB first].
write_frame(addr, data) ==
    << And16(addr, 127) >> \o [i \in 1..8 |-> ByteOf(data, 8 - i)]

\* read_register: [0x80 | (addr & 0x7F), 0, 0, 0, 0, 0, 0, 0, 0].
read_frame(addr) ==
    << Or16(128, And16(addr, 127)) >> \o [i \in 1..8 |-> 0]

\* read_register: data = (data << 8) | byte over rx[1..9].
data_from_rx(rx) ==
    U64(rx[9] + 256 * rx[8], rx[7] + 256 * rx[6],
        rx[5] + 256 * rx[4], rx[3] + 256 * rx[2])

\* self.cmd_full.is_high().unwrap_or(false); reading the pin cannot fail.
is_cmd_full == cmd_full

\* The arguments the transport is called with, and what the device may
\* shift out during a read (rx starts as all zeros).
AddrValues == {COLOR, ID, 200}

DataValues == {U64Zero, U64(513, 1027, 1541, 2055)}

RxValues == {[i \in 1..9 |-> 0], <<255, 1, 2, 3, 4, 5, 6, 103, 2>>}

\* write_register(addr, data) is called.
XWriteCall ==
    /\ x_pc = "idle"
    /\ Len(wire) < MaxWire
    /\ \E addr \in AddrValues, data \in DataValues :
          x_addr' = addr /\ x_data' = data
    /\ x_pc' = "poll"
    /\ x_sample' = "none"
    /\ x_spun' = FALSE
    /\ x_ret' = "None"
    /\ x_spi' = "none"
    /\ UNCHANGED <<x_read, cmd_full, wire, coreVars, fbVars, drvVars, meshVars,
                   pairVars, numVars>>

\* A flow control loop that gives up waiting.
XPollFullNoWait ==
    /\ x_pc = "poll"
    /\ is_cmd_full
    /\ x_sample' = "high"
    /\ x_spun' = TRUE
    /\ x_pc' = "send"
    /\ UNCHANGED <<x_addr, x_data, x_ret, x_read, x_spi, cmd_full, wire,
                   coreVars, fbVars, drvVars, meshVars, pairVars, numVars>>

\* The flow control loop samples CMD_FULL asserted: spin.
XPollFull ==
    /\ x_pc = "poll"
    /\ is_cmd_full
    /\ x_sample' = "high"
    /\ x_spun' = TRUE
    /\ UNCHANGED <<x_pc, x_addr, x_data, x_ret, x_read, x_spi, cmd_full, wire,
                   coreVars, fbVars, drvVars, meshVars,
                   pairVars, numVars>>

\* The flow control loop samples CMD_FULL deasserted: leave the loop.
XPollReady ==
    /\ x_pc = "poll"
    /\ ~is_cmd_full
    /\ x_sample' = "low"
    /\ x_pc' = "send"
    /\ UNCHANGED <<x_addr, x_data, x_spun, x_ret, x_read, x_spi, cmd_full,
                   wire, coreVars, fbVars, drvVars, meshVars, pairVars,
                   numVars>>

\* The frame goes out; the result of spi.write is dropped; return Ok(()).
XSend ==
    /\ x_pc = "send"
    /\ wire' = Append(wire, write_frame(x_addr, x_data))
    /\ \E spi_result \in {"Ok", "SpiBusError"} :
          /\ x_spi' = spi_result
          /\ x_ret' = rp2350_transport_ret(spi_result)
    /\ x_pc' = "idle"
    /\ UNCHANGED <<x_addr, x_data, x_sample, x_spun, x_read, cmd_full,
                   coreVars, fbVars, drvVars, meshVars,
                   pairVars, numVars>>

\* read_register(addr): no flow control; the result of spi.transfer is
\* dropped and whatever rx holds is returned.
XReadRegister ==
    /\ x_pc = "idle"
    /\ Len(wire) < MaxWire
    /\ \E addr \in AddrValues, rx \in RxValues :
          /\ wire' = Append(wire, read_frame(addr))
          /\ x_read' = data_from_rx(rx)
    /\ \E spi_result \in {"Ok", "SpiBusError"} :
          /\ x_spi' = spi_result
          /\ x_ret' = rp2350_transport_ret(spi_result)
    /\ UNCHANGED <<x_pc, x_addr, x_data, x_sample, x_spun, cmd_full,
                   coreVars, fbVars, drvVars, meshVars,
                   pairVars, numVars>>

\* The device's command FIFO fills up or drains.
XDevice ==
    /\ cmd_full' = ~cmd_full
    /\ UNCHANGED <<x_pc, x_addr, x_data, x_sample, x_spun, x_ret, x_read,
                   x_spi, wire, coreVars, fbVars, drvVars, meshVars, pairVars,
                   numVars>>

TransportInit == CoreInit /\ FbInit /\ DrvIdle /\ XIdle

TransportNext ==
    \/ XWriteCall
    \/ XPollFull
    \/ XPollReady
    \/ XSend
    \/ XReadRegister
    \/ XDevice

TransportSpec == TransportInit /\ [][TransportNext]_vars

(***************************************************************************)
(* Properties of the transport.                                            *)
(***************************************************************************)
\* A frame of write_register: bit 7 of the first byte is clear.
IsWriteFrame(f) == f[1] < 128

\* C9: a write frame goes on the wire only in a step of write_register that
\* directly follows a CMD_FULL sample that read deasserted; as long as the
\* last sample read asserted, nothing is sent and the call stays in its
\* flow control loop.
C9_WriteAfterReadySample ==
    /\ [][(Len(wire') > Len(wire) /\ IsWriteFrame(wire'[Len(wire')])) =>
            /\ x_pc = "send"
            /\ x_sample = "low"
            /\ wire' = Append(wire, write_frame(x_addr, x_data))]_vars
    /\ [][(x_pc = "poll" /\ x_sample' = "high") =>
            /\ x_pc' = "poll"
            /\ wire' = wire]_vars
    /\ [](x_sample = "high" => x_pc = "poll")
    /\ [](x_pc = "send" => x_sample = "low")

\* write_register has spun on CMD_FULL, then sent its frame and returned.
C9_Witness ==
    /\ x_pc = "idle"
    /\ x_spun
    /\ x_sample = "low"
    /\ x_ret = "Ok"
    /\ wire # << >>
    /\ wire[Len(wire)] = write_frame(x_addr, x_data)
    /\ wire[Len(wire)] = <<72, 8, 7, 6, 5, 4, 3, 2, 1>>

\* The 9 bytes pack_write puts at offset 3 of a buffer of 14 bytes of 0xEE.
PackedFrame(addr, data) ==
    LET out == pack_write([i \in 1..14 |-> 238], 3, addr, data)
    IN  SubSeq(out.buffer, 4, 12)

\* C20: the frame write_register sends for (addr, data) is the 9 bytes
\* pack_write produces for them: byte 0 is addr & 0x7F, below 0x80, and
\* bytes 1..8 are the value's bytes from the most significant down;
\* decoding those bytes the way read_register decodes rx gives data back.
\* The frame read_register sends is 0x80 | (addr & 0x7F) and eight zero
\* bytes, and the value it returns is rx[1..9] read most significant byte
\* first.
C20_FrameLayout ==
    /\ [][(x_pc = "send" /\ x_pc' = "idle") =>
            \E f \in {wire'[Len(wire')]} :
                /\ Len(wire') = Len(wire) + 1
                /\ f = PackedFrame(x_addr, x_data)
                /\ Len(f) = 9
                /\ f[1] = x_addr % 128
                /\ f[1] < 128
                /\ \A k \in 0..3 :
                        /\ f[8 - 2 * k] = x_data[k + 1] \div 256
                        /\ f[9 - 2 * k] = x_data[k + 1] % 256
                /\ data_from_rx(f) = x_data]_vars
    /\ [][(x_pc = "idle" /\ x_pc' = "idle" /\ wire' # wire) =>
            \E f \in {wire'[Len(wire')]} :
                /\ Len(wire') = Len(wire) + 1
                /\ \E addr \in AddrValues :
                        f = <<128 + (addr % 128), 0, 0, 0, 0, 0, 0, 0, 0>>
                /\ x_read' \in {U64Zero, U64(26370, 1286, 772, 258)}]_vars
    /\ [](\A k \in 1..Len(wire) :
            IsWriteFrame(wire[k]) \/ wire[k][1] - 128 \in {a % 128 : a \in AddrValues})

\* write_register(200, 0x0807060504030201) has sent 0x48 and the bytes
\* 08 .. 01, then read_register has sent its frame and returned the bytes
\* 01 02 03 04 05 06 67 02 of rx as 0x0102030405066702.
C20_Witness ==
    /\ Len(wire) = 2
    /\ wire[1] = <<72, 8, 7, 6, 5, 4, 3, 2, 1>>
    /\ wire[1] = PackedFrame(200, U64(513, 1027, 1541, 2055))
    /\ wire[2][1] >= 128
    /\ x_read = U64(26370, 1286, 772, 258)

(***************************************************************************)
(* Specification of render_mesh (render/mesh.rs): one call at a time, one  *)
(* pass of the triangle loop per step.  The mesh has m_n vertices whose    *)
(* transformed screen positions repeat with period 6: a triangle, then     *)
(* three points on one line.                                               *)
(***************************************************************************)
MeshSizes == {6, MAX_TRANSFORMED - 1, MAX_TRANSFORMED, MAX_TRANSFORMED + 1}

\* Screen position of vertex i after transform_vertex.
MeshPoint(i) ==
    CASE i % 6 = 0 -> <<320, 100>>
      [] i % 6 = 1 -> <<200, 400>>
      [] i % 6 = 2 -> <<440, 400>>
      [] i % 6 = 3 -> <<100, 100>>
      [] i % 6 = 4 -> <<200, 200>>
      [] OTHER -> <<300, 300>>

\* Phase 1 of render_mesh: transformed[i] for i < vert_count.
MeshTransformed(n) ==
    [i \in 0..(mesh_vert_count(n) - 1) |->
        [x |-> MeshPoint(i)[1], y |-> MeshPoint(i)[2], z |-> Rat(1, 2),
         color |-> TEAPOT_COLOR]]

\* The index triples a mesh of n vertices is made of.
TriChoices(n) ==
    {<<0, 1, 2>>, <<0, 2, 1>>, <<3, 4, 5>>, <<0, 1, n - 2>>,
     <<n - 3, n - 2, n - 1>>}

MeshTriSeqs(n) == UNION {[1..l -> TriChoices(n)] : l \in 0..MeshTris}

\* Phase 1 of render_mesh, `for i in 0..vert_count`: the number of calls
\* of transform_vertex, transform_normal and compute_lighting it makes for
\* each vertex of a mesh of n positions.
phase1_calls(n) ==
    [i \in 0..(n - 1) |->
        Cardinality({j \in 0..(mesh_vert_count(n) - 1) : j = i})]

\* render_mesh is called: phase 1 fills the scratch buffer.
MRenderMesh ==
    /\ m_pc \in {"idle", "returned"}
    /\ \E n \in MeshSizes :
          /\ m_n' = n
          /\ m_vc' = mesh_vert_count(n)
          /\ m_xf' = phase1_calls(n)
          /\ \E tris \in MeshTriSeqs(n) : m_tris' = tris
    /\ m_pc' = "phase2"
    /\ m_k' = 1
    /\ m_facing' = << >>
    /\ m_out' = << >>
    /\ UNCHANGED <<x_pc, x_addr, x_data, x_sample, x_spun, x_ret, x_read,
                   x_spi, cmd_full, wire, coreVars, fbVars, drvVars, pairVars,
                   numVars>>

\* One pass of the loop over mesh.indices.
MTriangle ==
    /\ m_pc = "phase2"
    /\ m_k <= Len(m_tris)
    /\ \E tri \in {m_tris[m_k]} :
       \E t \in {MeshTransformed(m_n)} :
       \E cmd \in {render_triangle(tri, t, m_vc)} :
          /\ m_out' = IF cmd = NoCmd THEN m_out ELSE Append(m_out, cmd)
          /\ m_facing' = Append(m_facing,
                IF tri[1] >= m_vc \/ tri[2] >= m_vc \/ tri[3] >= m_vc
                THEN "skipped"
                ELSE IF is_front_facing(t[tri[1]], t[tri[2]], t[tri[3]])
                THEN "front" ELSE "back")
    /\ m_k' = m_k + 1
    /\ UNCHANGED <<m_pc, m_n, m_tris, m_vc, m_xf, x_pc, x_addr, x_data,
                   x_sample, x_spun, x_ret, x_read, x_spi, cmd_full, wire,
                   coreVars, fbVars, drvVars, pairVars, numVars>>

\* The loop is over: render_mesh returns.
MReturn ==
    /\ m_pc = "phase2"
    /\ m_k > Len(m_tris)
    /\ m_pc' = "returned"
    /\ UNCHANGED <<m_n, m_tris, m_vc, m_k, m_facing, m_out, m_xf, x_pc, x_addr,
                   x_data, x_sample, x_spun, x_ret, x_read, x_spi, cmd_full,
                   wire, coreVars, fbVars, drvVars, pairVars, numVars>>

MeshInit == CoreInit /\ FbInit /\ DrvIdle /\ XIdle

MeshNext ==
    \/ MRenderMesh
    \/ MTriangle
    \/ MReturn

MeshSpec == MeshInit /\ [][MeshNext]_vars

(***************************************************************************)
(* Properties of render_mesh.                                              *)
(***************************************************************************)
\* C15: render_mesh does not return normally from a mesh with more than
\* MAX_TRANSFORMED vertices: it never returns having left vertices out of
\* the scratch buffer or having skipped a triangle that refers to them.
C15_OverflowFailsLoudly ==
    (m_pc = "returned" /\ m_n > MAX_TRANSFORMED) =>
        /\ m_vc = m_n
        /\ \A k \in 1..Len(m_facing) : m_facing[k] # "skipped"

\* The screen positions of the vertices of triangle k.
TrianglePoints(k) ==
    << MeshPoint(m_tris[k][1]), MeshPoint(m_tris[k][2]),
       MeshPoint(m_tris[k][3]) >>

\* C16: is_front_facing is true of (320,100),(200,400),(440,400), false of
\* the same points with the last two exchanged, and false of three points
\* on one line.
C16_FrontFacing ==
    \A k \in 1..Len(m_facing) :
        m_facing[k] # "skipped" =>
            /\ TrianglePoints(k) = << <<320, 100>>, <<200, 400>>, <<440, 400>> >>
                  => m_facing[k] = "front"
            /\ TrianglePoints(k) = << <<320, 100>>, <<440, 400>>, <<200, 400>> >>
                  => m_facing[k] = "back"
            /\ TrianglePoints(k) = << <<100, 100>>, <<200, 200>>, <<300, 300>> >>
                  => m_facing[k] = "back"

(***************************************************************************)
(* Specification of two drivers: each is a GpuDriver after new() on a      *)
(* transport whose calls all succeed, and executes commands one at a time. *)
(***************************************************************************)
PairCmds ==
    {WaitVsync, UploadTexture(TEXTURE_BASE_ADDR, TEX_ID_CHECKERBOARD),
     clear_cmd("GouraudTriangle"), mode_cmd("GouraudTriangle"),
     mode_cmd("SpinningTeapot"), tri_cmd("TexturedTriangle")}

\* An executor that remembers the render mode it wrote last and leaves out
\* the write of a mode that is the same.
driver_execute_steps_cached_mode(drv, cmd) ==
    IF cmd.kind = "SetRenderMode" /\ p_last[drv].cmd = cmd THEN << >>
    ELSE execute_steps(cmd, p_fb[drv].draw, p_fb[drv].display)

\* commands::execute(gpu, cmd, textures) on driver drv.
driver_execute_steps(drv, cmd) ==
    execute_steps(cmd, p_fb[drv].draw, p_fb[drv].display)

\* One of the drivers executes a command.
PExecute ==
    /\ \E drv \in Drivers, cmd \in PairCmds :
       \E steps \in {driver_execute_steps(drv, cmd)} :
       \E x \in {run_steps(steps, [i \in 1..Len(steps) |-> "Ok"],
                           p_fb[drv].draw, p_fb[drv].display)} :
          /\ p_fb' = [p_fb EXCEPT ![drv] =
                        [draw |-> x.draw, display |-> x.display]]
          /\ p_last' = [p_last EXCEPT ![drv] =
                          [cmd |-> cmd, draw |-> p_fb[drv].draw,
                           display |-> p_fb[drv].display,
                           log |-> Accesses(steps)]]
          /\ p_prev' = [p_prev EXCEPT ![drv] = p_last[drv].cmd]
    /\ UNCHANGED <<x_pc, x_addr, x_data, x_sample, x_spun, x_ret, x_read,
                   x_spi, cmd_full, wire, meshVars, numVars, coreVars, fbVars,
                   drvVars>>

PairInit == CoreInit /\ FbInit /\ DrvIdle /\ XIdle

PairNext == PExecute

PairSpec == PairInit /\ [][PairNext]_vars

field(reg, offset, mask) ==
    LET v == And64(Shr64(reg, offset), U64FromNat(mask))
    IN  v[1] + Limb * v[2]

\* XxxE::from_bits: the variant with that bit pattern, or UnknownVariant.
from_bits(variants, bits) == IF bits \in variants THEN bits ELSE "UnknownVariant"

\* RenderModeReg's getters, applied to the register value `reg`.
RenderModeReg(reg) ==
    [gouraud     |-> field(reg, 0, 1) # 0,
     z_test      |-> field(reg, 2, 1) # 0,
     z_write     |-> field(reg, 3, 1) # 0,
     color_write |-> field(reg, 4, 1) # 0,
     cull_mode   |-> from_bits(0..2, field(reg, 5, 3)),
     alpha_blend |-> from_bits(0..3, field(reg, 7, 7)),
     dither      |-> field(reg, 10, 1) # 0,
     z_compare   |-> from_bits(0..7, field(reg, 13, 7)),
     stipple_en  |-> field(reg, 16, 1) # 0,
     alpha_test  |-> from_bits(0..3, field(reg, 17, 3)),
     alpha_ref   |-> field(reg, 19, 255)]

\* Bits 1, 11, 12 and 27..63 of RENDER_MODE: rsvd_1, dither_pattern and
\* rsvd_hi, none of which set_render_mode takes an argument for.
RenderModeRest(reg) ==
    field(reg, 1, 1) + field(reg, 11, 3) + field(reg, 27, 31)
    + reg[3] + reg[4]

\* The sum of the arguments, each at its documented position.  When no two
\* fields overlap, this is the value that ORing them gives.
RenderModeSum(a) ==
    BoolBit(a.gouraud) + 4 * BoolBit(a.z_test) + 8 * BoolBit(a.z_write)
    + 16 * BoolBit(a.color_write) + 32 * a.cull_mode + 128 * a.alpha_blend
    + 1024 * BoolBit(a.dither) + 8192 * a.z_compare
    + 65536 * BoolBit(a.stipple_en) + 131072 * a.alpha_test
    + 524288 * a.alpha_ref

\* C23: set_render_mode makes exactly one register write, to RENDER_MODE;
\* the value written has every argument in its own field (it equals the sum
\* of the shifted arguments, so no two fields share a bit), every other bit
\* is zero, and RenderModeReg's getters return the arguments.
C23_RenderModePacking ==
    d_op = "set_render_mode" =>
        /\ Len(d_steps) = 1
        /\ Len(d_log) <= 1
        /\ d_ret = "Ok" => Len(d_log) = 1
        /\ \A i \in 1..Len(d_log) :
              /\ d_log[i].ins = "W"
              /\ d_log[i].addr = RENDER_MODE
              /\ d_log[i].data = U64FromNat(RenderModeSum(d_arg))
              /\ RenderModeRest(d_log[i].data) = 0
              /\ RenderModeReg(d_log[i].data) = d_arg

\* set_render_mode returned Ok with every argument at its largest value.
C23_Witness ==
    /\ d_op = "set_render_mode"
    /\ d_ret = "Ok"
    /\ d_arg = RenderModeFull
    /\ Len(d_log) = 1

\* MemFillReg's getters, applied to the register value `reg`.
MemFillReg(reg) ==
    [base  |-> field(reg, 0, 65535),
     value |-> field(reg, 16, 65535),
     count |-> field(reg, 32, 1048575),
     rsvd  |-> field(reg, 52, 4095)]

\* C24: the MEM_FILL value gpu_mem_fill writes decodes to the base, the
\* value and the count it was called with, with the reserved bits zero, for
\* every count up to 1,048,576.
C24_MemFillRoundTrip ==
    d_op = "gpu_mem_fill" =>
        \A i \in 1..Len(d_log) :
            /\ d_log[i].addr = MEM_FILL
            /\ MemFillReg(d_log[i].data) =
                  [base |-> d_arg.base, value |-> d_arg.value,
                   count |-> d_arg.count, rsvd |-> 0]

\* The same with the count at most 0xFFFFF, the largest the 20-bit field
\* holds (mem_fill_large_count).
C24_MemFillBelowMax ==
    d_op = "gpu_mem_fill" /\ d_arg.count < MEM_FILL_MAX_COUNT =>
        \A i \in 1..Len(d_log) :
            MemFillReg(d_log[i].data) =
                [base |-> d_arg.base, value |-> d_arg.value,
                 count |-> d_arg.count, rsvd |-> 0]

\* A fill of 1,048,576 words is written as count 0 with reserved bit 52 set.
C24_MaxCountWritten ==
    /\ d_op = "gpu_mem_fill"
    /\ d_ret = "Ok"
    /\ d_arg.count = MEM_FILL_MAX_COUNT
    /\ MemFillReg(d_log[1].data).count = 0
    /\ MemFillReg(d_log[1].data).rsvd = 1

\* FbControlReg's getters, applied to the register value `reg`.
FbControlReg(reg) ==
    [x      |-> field(reg, 0, 1023),
     y      |-> field(reg, 10, 1023),
     width  |-> field(reg, 20, 1023),
     height |-> field(reg, 30, 1023)]

\* C25: the FB_CONTROL value gpu_set_scissor writes decodes to the x, y,
\* width and height it was called with, for x, y in 0..=1023 and width,
\* height in 1..=1024.
C25_ScissorRoundTrip ==
    d_op = "gpu_set_scissor" =>
        \A i \in 1..Len(d_log) :
            /\ d_log[i].addr = FB_CONTROL
            /\ FbControlReg(d_log[i].data) = d_arg

\* The same with width and height at most 1023.
C25_ScissorBelowMax ==
    d_op = "gpu_set_scissor" /\ d_arg.width < 1024 /\ d_arg.height < 1024 =>
        \A i \in 1..Len(d_log) : FbControlReg(d_log[i].data) = d_arg

\* A scissor 1024 wide is written with width 0, and bits 40..63 zero.
C25_FullWidthWritten ==
    /\ d_op = "gpu_set_scissor"
    /\ d_ret = "Ok"
    /\ d_arg.width = 1024
    /\ FbControlReg(d_log[1].data).width = 0
    /\ d_log[1].data[4] = 0

(***************************************************************************)
(* The numeric helpers called on their own: f32_to_12_4 (math/fixed.rs)    *)
(* and compute_lighting (render/lighting.rs).  An f32 argument is a        *)
(* rational whose denominator is a power of two, as every finite f32 is.   *)
(***************************************************************************)
\* At most this many 1/32 steps on either side of 0, of -2048 and of
\* 2047.9375 are tried as arguments of f32_to_12_4.
FixedSpan == 24

\* Arguments of f32_to_12_4 in 1/32 steps (half an LSB): around zero, around
\* both ends of the range, and far outside it (3000, 4096, 2^21 and their
\* negatives; 4096 * 16 is 0 modulo 2^16).
FixedInputs ==
    {Rat(n, 32) : n \in (0 - FixedSpan)..FixedSpan}
    \cup {Rat(65534 + n, 32) : n \in (0 - FixedSpan)..FixedSpan}
    \cup {Rat(n - 65536, 32) : n \in (0 - FixedSpan)..FixedSpan}
    \cup {Rat(3000, 1), Rat(-3000, 1), Rat(4096, 1), Rat(-4096, 1),
          Rat(2097152, 1), Rat(-2097152, 1)}

\* `code as i16`: the 16-bit code read as a signed number.
AsI16(code) == IF code >= 32768 THEN code - Limb ELSE code

NFixed ==
    /\ f_op = "idle"
    /\ \E x \in FixedInputs :
          /\ f_op' = "f32_to_12_4"
          /\ f_in' = x
          /\ f_out' = f32_to_12_4(x)
    /\ UNCHANGED <<coreVars, fbVars, drvVars, x_pc, x_addr, x_data, x_sample,
                   x_spun, x_ret, x_read, x_spi, cmd_full, wire, meshVars,
                   pairVars>>

\* a + b in f32 for two values whose denominators are powers of two and
\* whose sum needs no rounding.
RatAdd(a, b) ==
    LET d == IF a[2] >= b[2] THEN a[2] ELSE b[2]
    IN  Rat(a[1] * (d \div a[2]) + b[1] * (d \div b[2]), d)

\* f32::max(self, 0.0).
RatMax0(a) == IF a[1] < 0 THEN Rat(0, 1) ELSE a

\* glam Vec3::dot.
Vec3Dot(a, b) ==
    RatAdd(RatAdd(RatMul(a[1], b[1]), RatMul(a[2], b[2])), RatMul(a[3], b[3]))

\* `x as u32` for an f32: truncation toward zero, negative values give 0.
AsU32(x) == IF x[1] < 0 THEN 0 ELSE x[1] \div x[2]

\* lit_r, lit_g or lit_b (channel ch) after the first k lights of the loop.
RECURSIVE lit_after(_, _, _, _, _)
lit_after(k, ch, normal, lights, ambient) ==
    IF k = 0 THEN ambient[ch]
    ELSE RatAdd(lit_after(k - 1, ch, normal, lights, ambient),
                RatMul(RatMax0(Vec3Dot(normal, lights[k].direction)),
                       lights[k].color[ch]))

\* compute_lighting with `as u8` in place of .min(255) as u8: a product
\* above 255 keeps its low eight bits.
compute_lighting_wrapping(normal, base_color, lights, ambient) ==
    [ch \in 1..4 |->
        IF ch = 4 THEN base_color[4]
        ELSE AsU32(RatMul(lit_after(4, ch, normal, lights, ambient),
                          Rat(base_color[ch], 1))) % 256]

\* render/lighting.rs compute_lighting.
compute_lighting(normal, base_color, lights, ambient) ==
    [ch \in 1..4 |->
        IF ch = 4 THEN base_color[4]
        ELSE LET v == AsU32(RatMul(lit_after(4, ch, normal, lights, ambient),
                                   Rat(base_color[ch], 1)))
             IN  IF v < 255 THEN v ELSE 255]

\* Vec3::splat(n / d).
Splat(n, d) == <<Rat(n, d), Rat(n, d), Rat(n, d)>>

Vec3Y == <<Rat(0, 1), Rat(1, 1), Rat(0, 1)>>

Light(direction, color) == [direction |-> direction, color |-> color]

\* zero_light() of lighting_tests.rs.
ZeroLight == Light(Vec3Y, Splat(0, 1))

\* The normals, base colours, light sets and ambient levels compute_lighting
\* is called with: those of lighting_tests.rs, and lights that face away,
\* strike at an angle, differ per channel or add up over all four slots.
LightingNormals ==
    {Vec3Y, <<Rat(0, 1), Rat(-1, 1), Rat(0, 1)>>,
     <<Rat(1, 2), Rat(1, 2), Rat(0, 1)>>}

LightingBases ==
    {<<255, 255, 255, 255>>, <<255, 255, 255, 128>>, <<200, 100, 50, 0>>,
     <<0, 1, 254, 77>>}

LightingLights ==
    {<<ZeroLight, ZeroLight, ZeroLight, ZeroLight>>,
     <<Light(Vec3Y, Splat(1, 1)), ZeroLight, ZeroLight, ZeroLight>>,
     <<Light(Vec3Y, Splat(2, 1)), ZeroLight, ZeroLight, ZeroLight>>,
     <<Light(Vec3Y, Splat(1, 2)), ZeroLight, ZeroLight, ZeroLight>>,
     <<Light(Vec3Y, Splat(1, 4)), Light(Vec3Y, Splat(1, 4)),
       Light(Vec3Y, Splat(1, 4)), Light(Vec3Y, Splat(1, 2))>>,
     <<ZeroLight, Light(<<Rat(1, 1), Rat(0, 1), Rat(0, 1)>>,
                        <<Rat(1, 1), Rat(1, 2), Rat(1, 8)>>),
       ZeroLight, Light(<<Rat(0, 1), Rat(-1, 1), Rat(0, 1)>>, Splat(1, 1))>>}

LightingAmbients ==
    {Splat(0, 1), Splat(1, 4), Splat(1, 1), Splat(2, 1),
     <<Rat(1, 4), Rat(1, 2), Rat(1, 1)>>}

NLighting ==
    /\ f_op = "idle"
    /\ \E normal \in LightingNormals, base_color \in LightingBases,
          lights \in LightingLights, ambient \in LightingAmbients :
          /\ f_op' = "compute_lighting"
          /\ f_in' = [normal |-> normal, base_color |-> base_color,
                      lights |-> lights, ambient |-> ambient]
          /\ f_out' = compute_lighting(normal, base_color, lights, ambient)
    /\ UNCHANGED <<coreVars, fbVars, drvVars, x_pc, x_addr, x_data, x_sample,
                   x_spun, x_ret, x_read, x_spi, cmd_full, wire, meshVars,
                   pairVars>>

\* C26: f32_to_12_4 clamps and never wraps.  An argument >= 2047.9375 gives
\* 0x7FFF and one <= -2048 gives 0x8000; an argument in between gives x * 16
\* truncated toward zero, which is less than one LSB (1/16) away from x; and
\* the signed code of no smaller argument is larger.
C26_ClampsNeverWraps ==
    f_op = "f32_to_12_4" =>
        LET n == f_in[1]
            d == f_in[2]
            code == AsI16(f_out)
        IN  /\ f_out \in 0..(Limb - 1)
            /\ 16 * n >= 32767 * d => f_out = 32767
            /\ n <= (-2048) * d => f_out = 32768
            /\ (16 * n < 32767 * d /\ n > (-2048) * d) =>
                  /\ IF n >= 0
                     THEN code * d <= 16 * n /\ 16 * n < (code + 1) * d
                     ELSE (code - 1) * d < 16 * n /\ 16 * n <= code * d
                  /\ (16 * n - code * d) < d
                  /\ (code * d - 16 * n) < d
            /\ \A y \in FixedInputs :
                  y[1] * d <= n * y[2] => AsI16(f32_to_12_4(y)) <= code

\* f32_to_12_4(4096.0) returned 0x7FFF, where 4096 * 16 wrapped would be 0.
C26_Witness ==
    /\ f_op = "f32_to_12_4"
    /\ f_in = Rat(4096, 1)
    /\ f_out = 32767

\* max(0, N.L) * light colour of light k, channel ch, for the call in f_in.
Directional(k, ch) ==
    RatMul(RatMax0(Vec3Dot(f_in.normal, f_in.lights[k].direction)),
           f_in.lights[k].color[ch])

\* ambient + the sum over the four lights, channel ch.
LightSum(ch) ==
    RatAdd(RatAdd(f_in.ambient[ch],
                  RatAdd(Directional(1, ch), Directional(2, ch))),
           RatAdd(Directional(3, ch), Directional(4, ch)))

\* C27: compute_lighting returns the base colour's alpha unchanged, and each
\* of R, G, B is min(255, trunc(base channel * light sum)): a light sum
\* above 1 on a channel of 255 gives 255, no light at all gives 0, and
\* ambient 1.0 with no directional light gives the base colour.
C27_LightingSaturates ==
    f_op = "compute_lighting" =>
        /\ f_out[4] = f_in.base_color[4]
        /\ \A ch \in 1..3 :
              LET s == LightSum(ch)
                  product == (f_in.base_color[ch] * s[1]) \div s[2]
              IN  /\ f_out[ch] = IF product < 255 THEN product ELSE 255
                  /\ f_out[ch] \in 0..255
                  /\ (s[1] > s[2] /\ f_in.base_color[ch] = 255) =>
                        f_out[ch] = 255
                  /\ s[1] = 0 => f_out[ch] = 0
                  /\ (f_in.ambient[ch] = Rat(1, 1)
                      /\ \A k \in 1..4 : Directional(k, ch)[1] = 0) =>
                        f_out[ch] = f_in.base_color[ch]

\* overexposed_clamps_to_255: ambient 1.0 and one light of colour 2.0 along
\* the normal on a white vertex, (1 + 2) * 255 = 765, returned as 255.
C27_Witness ==
    /\ f_op = "compute_lighting"
    /\ f_in.normal = Vec3Y
    /\ f_in.base_color = <<255, 255, 255, 255>>
    /\ f_in.lights[1] = Light(Vec3Y, Splat(2, 1))
    /\ f_in.ambient = Splat(1, 1)
    /\ f_out = <<255, 255, 255, 255>>

\* The caller has the result; the next call can be made.
\* The arguments pack_position is called with: screen corners and a
\* coordinate left of the screen, depths from the near to the far plane and
\* outside them.
PackInputs ==
    {<<x, y, z>> : x \in {Rat(0, 1), Rat(639, 1), Rat(-1, 1)},
                  y \in {Rat(0, 1), Rat(479, 1)},
                  z \in {Rat(0, 1), Rat(1, 65536), Rat(1, 1024), Rat(1, 512),
                         Rat(1, 2), Rat(1, 1), Rat(2, 1), Rat(-1, 1)}}

NPack ==
    /\ f_op = "idle"
    /\ \E a \in PackInputs :
          /\ f_op' = "pack_position"
          /\ f_in' = a
          /\ f_out' = pack_position(a[1], a[2], a[3])
    /\ UNCHANGED <<coreVars, fbVars, drvVars, x_pc, x_addr, x_data, x_sample,
                   x_spun, x_ret, x_read, x_spi, cmd_full, wire, meshVars,
                   pairVars>>

NReturn ==
    /\ f_op # "idle"
    /\ f_op' = "idle"
    /\ f_in' = << >>
    /\ f_out' = << >>
    /\ UNCHANGED <<coreVars, fbVars, drvVars, x_pc, x_addr, x_data, x_sample,
                   x_spun, x_ret, x_read, x_spi, cmd_full, wire, meshVars,
                   pairVars>>

NumericNext ==
    \/ NFixed
    \/ NLighting
    \/ NPack
    \/ NReturn

NumericSpec == Init /\ [][NumericNext]_vars

(***************************************************************************)
(* The framebuffer configuration the driver tracks and the one it writes.  *)
(***************************************************************************)
\* FbConfigReg's getters, applied to the register value `reg`.
FbConfigReg(reg) ==
    [color_base  |-> field(reg, 0, 65535),
     z_base      |-> field(reg, 16, 65535),
     width_log2  |-> field(reg, 32, 15),
     height_log2 |-> field(reg, 36, 15)]

\* C28: every FB_CONFIG value new or swap_buffers writes has ZBUFFER_BASE_512
\* in its Z_BASE field, which is the colour base of neither framebuffer.
C28_ZBaseIsDepthBuffer ==
    d_op \in {"new", "swap_buffers"} =>
        \A i \in 1..Len(d_log) :
            (d_log[i].ins = "W" /\ d_log[i].addr = FB_CONFIG) =>
                /\ FbConfigReg(d_log[i].data).z_base = ZBUFFER_BASE_512
                /\ FbConfigReg(d_log[i].data).z_base
                      \notin {FB_A_BASE_512, FB_B_BASE_512}

\* The FB_CONFIG write of new does carry ZBUFFER_BASE_512.
C28_NewProgramsZBuffer ==
    d_op = "new" =>
        \A i \in 1..Len(d_log) :
            (d_log[i].ins = "W" /\ d_log[i].addr = FB_CONFIG) =>
                FbConfigReg(d_log[i].data).z_base = ZBUFFER_BASE_512

\* The first swap_buffers has made framebuffer B the draw target with Z_BASE
\* 0, the colour base of framebuffer A, which is now the one displayed.
C28_FirstSwapWritten ==
    /\ d_op = "swap_buffers"
    /\ d_ret = "Ok"
    /\ display_fb[1] = FB_A_BASE_512
    /\ FbConfigReg(d_log[1].data).color_base = FB_B_BASE_512
    /\ FbConfigReg(d_log[1].data).z_base = FB_A_BASE_512

\* The calls that change the tracked configuration, on their own.
ConfigNext ==
    \/ DNew
    \/ DSwapBuffers
    \/ DSetFbConfig
    \/ DLocal
    \/ DAccessOk
    \/ DAccessErr

ConfigSpec == DriverInit /\ [][ConfigNext]_vars

\* C29: when a register write of swap_buffers or gpu_set_fb_config has
\* failed, the tracked draw and display configuration is the one the call
\* found.
C29_FailureKeepsTrackedConfig ==
    (d_op \in {"swap_buffers", "gpu_set_fb_config"} /\ t_err # "none") =>
        /\ draw_fb = d_arg.draw_fb
        /\ display_fb = d_arg.display_fb

\* swap_buffers failed at its first write, FB_CONFIG, and the tracked pair
\* is exchanged all the same.
C29_SwapFailedExchanged ==
    /\ d_op = "swap_buffers"
    /\ d_ret = "Transport"
    /\ t_fail_at = 1
    /\ draw_fb = d_arg.display_fb
    /\ display_fb = d_arg.draw_fb
    /\ draw_fb # display_fb

(***************************************************************************)
(* End-to-end progress.  Core 0 as in Spec; Core 1's loop iteration is     *)
(* followed through commands::execute one register access at a time, on   *)
(* the RP2350 transport: write_register spins while CMD_FULL is high and   *)
(* always returns Ok, wait_vsync spins through its two loops.  The device  *)
(* drives CMD_FULL and VSYNC.                                              *)
(***************************************************************************)
PC0Poll == C0Poll

\* enqueue_blocking, within the first MaxProgress calls; the queue has room.
PC0Enqueue ==
    /\ Len(sent) < MaxProgress
    /\ C0EnqueueOk

\* consumer.dequeue() returns Some(cmd) and commands::execute is entered.
P1Dequeue ==
    /\ d_op # "execute"
    /\ \E r \in {consumer_dequeue(head, tail, buffer)} :
        /\ r.some
        /\ head' = r.head
        /\ buffer' = r.buffer
        /\ d_op' = "execute"
        /\ d_arg' = r.value
        /\ \E steps \in {execute_steps(r.value, draw_fb, display_fb)} :
            /\ d_steps' = steps
            /\ d_ret' = IF steps = << >> THEN "Ok" ELSE "Running"
    /\ d_i' = 1
    /\ d_okret' = "Ok"
    /\ d_log' = << >>
    /\ v_pc' = "idle"
    /\ v_seen' = << >>
    /\ UNCHANGED <<pc0, active_demo, needs_init, angle, mesh_i, spinning,
                   enq_result, enq_returned, polls, tail, frame_count,
                   cmds_this_frame, idle_spins, exec_ret, spi_failed, sent,
                   executed, iter_cmds, fbVars, d_driver, d_err, t_err,
                   t_fail_at, d_buf, d_rx, vsync, xVars>>

\* Rp2350Transport::write_register: the sample of CMD_FULL that reads low
\* ends the spin, the frame is sent and Ok returned.  (A sample that reads
\* high changes nothing.)
P1Write ==
    /\ ~cmd_full
    /\ d_op = "execute"
    /\ DAccessOk

\* core::mem::swap in swap_buffers.
P1Swap == d_op = "execute" /\ DLocal

\* wait_vsync, the samples of the first and of the second loop.
P1WaitVsyncLow == d_op = "execute" /\ DWaitVsyncLow

P1WaitVsyncHigh == d_op = "execute" /\ DWaitVsyncHigh

\* The end of the iteration without the frame bookkeeping.
P1Return_frame_uncounted ==
    /\ d_op = "execute"
    /\ d_ret # "Running"
    /\ exec_ret' = d_ret
    /\ executed' = Append(executed, d_arg)
    /\ cmds_this_frame' = cmds_this_frame + 1
    /\ d_op' = "none"
    /\ d_arg' = << >>
    /\ d_steps' = << >>
    /\ d_i' = 1
    /\ d_ret' = "Idle"
    /\ d_log' = << >>
    /\ v_pc' = "idle"
    /\ v_seen' = << >>
    /\ UNCHANGED <<pc0, active_demo, needs_init, angle, mesh_i, spinning,
                   enq_result, enq_returned, polls, head, tail, buffer,
                   frame_count, idle_spins, spi_failed, sent, iter_cmds,
                   fbVars, d_driver, d_okret, d_err, t_err, t_fail_at, d_buf,
                   d_rx, vsync, xVars>>

\* execute has returned: an Err is logged, then the frame bookkeeping.  (An
\* iteration in which dequeue returns None only counts an idle spin, which
\* the next frame boundary resets; it is left out.)
P1Return ==
    /\ d_op = "execute"
    /\ d_ret # "Running"
    /\ exec_ret' = d_ret
    /\ executed' = Append(executed, d_arg)
    /\ IF d_arg.kind = "WaitVsync"
       THEN /\ frame_count' = frame_count + 1
            /\ cmds_this_frame' = 0
            /\ idle_spins' = 0
       ELSE /\ cmds_this_frame' = cmds_this_frame + 1
            /\ UNCHANGED <<frame_count, idle_spins>>
    /\ d_op' = "none"
    /\ d_arg' = << >>
    /\ d_steps' = << >>
    /\ d_i' = 1
    /\ d_ret' = "Idle"
    /\ d_log' = << >>
    /\ v_pc' = "idle"
    /\ v_seen' = << >>
    /\ UNCHANGED <<pc0, active_demo, needs_init, angle, mesh_i, spinning,
                   enq_result, enq_returned, polls, head, tail, buffer,
                   spi_failed, sent, iter_cmds, fbVars, d_driver, d_okret,
                   d_err, t_err, t_fail_at, d_buf, d_rx, vsync, xVars>>

ProgressNext ==
    \/ PC0Poll
    \/ PC0Enqueue
    \/ P1Dequeue
    \/ P1Write
    \/ P1Swap
    \/ P1WaitVsyncLow
    \/ P1WaitVsyncHigh
    \/ P1Return
    \/ XDevice
    \/ DVsyncPin

\* Scheduling.  Both cores run, so a step a core can take it does take.
\* The device lowers CMD_FULL whenever it is high and keeps toggling VSYNC.
\* The spin loops sample their pin millions of times while the device
\* holds it, so a loop whose pin is again and again at the level it waits
\* for does see it there: strong fairness for the sample that ends a loop.
\* The conditions name the steps by the move they make, as in FairSpec.
Core0Polls == pc0 = "poll" /\ pc0' \in {"upload", "clear"}

Core0Enqueues ==
    /\ pc0 \in EnqueuePcs
    /\ Len(sent) < MaxProgress
    /\ tail' = (tail + 1) % QUEUE_CAPACITY

Core1Dequeues == d_op # "execute" /\ head # tail /\ d_op' = "execute"

Core1Returns == d_op = "execute" /\ d_ret # "Running" /\ d_op' = "none"

\* Core 1 is inside execute, at a step of kind `ins`.
Core1At(ins) ==
    /\ d_op = "execute"
    /\ d_ret = "Running"
    /\ d_steps[d_i].ins = ins

Core1Swaps == Core1At("S") /\ d_i' = d_i + 1

Core1Writes == Core1At("W") /\ ~cmd_full /\ d_i' = d_i + 1

Core1SeesVsyncLow ==
    /\ Core1At("V")
    /\ v_pc \in {"idle", "wait_low"}
    /\ ~vsync
    /\ v_pc' = "wait_high"

Core1SeesVsyncHigh ==
    /\ Core1At("V")
    /\ v_pc = "wait_high"
    /\ vsync
    /\ v_pc' = "returned"

DeviceDrains == cmd_full /\ cmd_full' = FALSE

VsyncToggles == vsync' = ~vsync

ProgressFairness ==
    /\ WF_pc0(Core0Polls)
    /\ WF_tail(Core0Enqueues)
    /\ WF_d_op(Core1Dequeues)
    /\ WF_d_op(Core1Returns)
    /\ WF_d_i(Core1Swaps)
    /\ SF_d_i(Core1Writes)
    /\ SF_v_pc(Core1SeesVsyncLow)
    /\ SF_v_pc(Core1SeesVsyncHigh)
    /\ WF_cmd_full(DeviceDrains)
    /\ WF_vsync(VsyncToggles)

ProgressSpec == Init /\ [][ProgressNext]_vars /\ ProgressFairness

\* The number of WaitVsync commands in a sequence of commands.
VsyncsIn(cmds) ==
    Cardinality({i \in DOMAIN cmds : cmds[i].kind = "WaitVsync"})

Core0Stalled ==
    /\ pc0 \in EnqueuePcs
    /\ ~producer_enqueue(head, tail, buffer, pending_cmd).ok

\* The dequeue Core 1 makes next would return None.
Core1Stalled == ~consumer_dequeue(head, tail, buffer).some

C32_ReturnsAfterRisingEdge ==
    /\ v_pc = "returned" =>
        /\ Len(v_seen) >= 2
        /\ v_seen[Len(v_seen)] = TRUE
        /\ v_seen[Len(v_seen) - 1] = FALSE
    /\ (v_pc = "returned" /\ v_seen[1] = TRUE) =>
            v_seen = <<TRUE, FALSE, TRUE>>
    /\ v_seen = <<TRUE>> => v_pc = "wait_low"

\* wait_vsync was called while VSYNC was high and has returned.
C32_Witness ==
    /\ v_pc = "returned"
    /\ v_seen = <<TRUE, FALSE, TRUE>>

(***************************************************************************)
(* The commands of one frame.  An iteration of the main loop enqueues one  *)
(* frame, closed by WaitVsync (C10); iter_cmds is the frame so far.         *)
(***************************************************************************)
\* The positions in cmds of the commands of a kind.
OfKind(cmds, kind) == {i \in DOMAIN cmds : cmds[i].kind = kind}

\* execute of the command writes the mode register.
WritesMode(cmd) ==
    LET steps == execute_steps(cmd, InitDrawFb, InitDisplayFb)
    IN  \E s \in DOMAIN steps :
            steps[s].ins = "W" /\ steps[s].addr = RENDER_MODE

\* The position of the command whose execute wrote the mode register last
\* before the command at position i is executed, 0 if there is none;
\* `writers` are the positions of the commands that write it.
LastModeWriter(writers, i) ==
    LET ws == {j \in writers : j < i}
    IN  IF ws = {} THEN 0 ELSE CHOOSE j \in ws : \A k \in ws : k <= j

\* C33: a frame holds at most one ClearFramebuffer, and exactly one once it
\* is complete; every SubmitScreenTriangle of the frame comes after the
\* ClearFramebuffer and after a SetRenderMode that follows the clear, and
\* the last command to write the mode register before the triangle is that
\* SetRenderMode, not the clear.
C33_ModeSetBeforeTriangles ==
    LET clears == OfKind(iter_cmds, "ClearFramebuffer")
        modes == OfKind(iter_cmds, "SetRenderMode")
        tris == OfKind(iter_cmds, "SubmitScreenTriangle")
        writers == {j \in DOMAIN iter_cmds : WritesMode(iter_cmds[j])}
    IN  /\ Cardinality(clears) <= 1
        /\ (iter_cmds # << >> /\ iter_cmds[Len(iter_cmds)].kind = "WaitVsync")
                => Cardinality(clears) = 1
        /\ \A t \in tris :
            \E c \in clears : \E m \in modes :
                /\ c < m
                /\ m < t
                /\ LastModeWriter(writers, t) = m
                /\ c \in writers

\* A frame of the teapot demo with triangles in it: its clear leaves the
\* depth-clear mode in the register, its SetRenderMode follows, and the
\* triangles come after both.
C33_Witness ==
    /\ Len(iter_cmds) >= 4
    /\ iter_cmds[1].kind = "ClearFramebuffer"
    /\ iter_cmds[1].clear_depth
    /\ iter_cmds[2].kind = "SetRenderMode"
    /\ iter_cmds[3].kind = "SubmitScreenTriangle"
    /\ iter_cmds[Len(iter_cmds)].kind = "SubmitScreenTriangle"

(***************************************************************************)
(* render_mesh on a mesh that fits the scratch buffer.                     *)
(***************************************************************************)
\* The triangles among the first k of the call that pass is_front_facing.
FrontFacing(k) ==
    {j \in 1..k :
        LET t == MeshTransformed(m_n)
            tri == m_tris[j]
        IN  is_front_facing(t[tri[1]], t[tri[2]], t[tri[3]])}

\* The command render_mesh builds for triangle j.
PackedTriangle(j) ==
    LET t == MeshTransformed(m_n)
        tri == m_tris[j]
    IN  SubmitScreenTriangle(screen_to_gpu(t[tri[1]]), screen_to_gpu(t[tri[2]]),
                             screen_to_gpu(t[tri[3]]), FALSE)

\* C34: in a call of render_mesh on a mesh of at most MAX_TRANSFORMED
\* vertices every vertex has been transformed and lit exactly once, however
\* many triangles refer to it; the sink has been called once for each
\* triangle done so far that passes is_front_facing and for no other, in
\* the order of mesh.indices, each time with the SubmitScreenTriangle of
\* that triangle, textured = false.
C34_OncePerVertexAndFrontTriangle ==
    (m_pc \in {"phase2", "returned"} /\ m_n <= MAX_TRANSFORMED) =>
        LET done == m_k - 1
            fronts == FrontFacing(done)
        IN  /\ \A i \in 0..(m_n - 1) : m_xf[i] = 1
            /\ Len(m_out) = Cardinality(fronts)
            /\ \A j \in fronts :
                m_out[Cardinality({i \in fronts : i <= j})] = PackedTriangle(j)
            /\ \A c \in DOMAIN m_out :
                /\ m_out[c].kind = "SubmitScreenTriangle"
                /\ m_out[c].textured = FALSE

\* render_mesh has returned from a mesh of MAX_TRANSFORMED vertices whose
\* two triangles share all three vertices: one faces the viewer and went
\* to the sink, the other does not and did not.
C34_Witness ==
    /\ m_pc = "returned"
    /\ m_n = MAX_TRANSFORMED
    /\ Len(m_tris) = 2
    /\ {m_tris[1], m_tris[2]} = {<<0, 1, 2>>, <<0, 2, 1>>}
    /\ Len(m_out) = 1
    /\ Cardinality(FrontFacing(2)) = 1

(***************************************************************************)
(* The vertex position word (vertex_reg.rs VertexReg).                     *)
(***************************************************************************)
\* VertexReg::x, y, z, q of a register word.
VertexReg(reg) ==
    [x |-> field(reg, 0, 65535),
     y |-> field(reg, 16, 65535),
     z |-> field(reg, 32, 65535),
     q |-> field(reg, 48, 65535)]

\* C35: the word pack_position returns holds the Q12.4 code of x in
\* [15:0], that of y in [31:16] and the depth code in [47:32]; for a depth
\* in [0, 1] the depth code is below 2^16, and [63:48], the field of
\* Q = 1/W, is zero.
C35_DepthWithinZField ==
    f_op = "pack_position" =>
        LET reg == VertexReg(f_out)
            z == f_in[3]
        IN  /\ reg.x = f32_to_12_4(f_in[1])
            /\ reg.y = f32_to_12_4(f_in[2])
            /\ (0 <= z[1] /\ z[1] <= z[2]) =>
                /\ f32_to_z25(z) < Limb
                /\ reg.z = f32_to_z25(z)
                /\ reg.q = 0

\* X and Y are where the claim puts them, whatever the depth.
C35_XYFields ==
    f_op = "pack_position" =>
        /\ VertexReg(f_out).x = f32_to_12_4(f_in[1])
        /\ VertexReg(f_out).y = f32_to_12_4(f_in[2])

\* A depth below 2^-9 gives a code that fits the Z field and leaves Q zero.
C35_SmallDepthFits ==
    (/\ f_op = "pack_position"
     /\ f_in[3] \in {Rat(0, 1), Rat(1, 65536), Rat(1, 1024)}) =>
        /\ VertexReg(f_out).z = f32_to_z25(f_in[3])
        /\ VertexReg(f_out).q = 0

\* pack_position of the far plane: the depth code 0x1FFFFFF fills [47:32]
\* and sets bits [56:48] of the Q field.
C35_FarPlaneSetsQ ==
    /\ f_op = "pack_position"
    /\ f_in[3] = Rat(1, 1)
    /\ VertexReg(f_out).z = 65535
    /\ VertexReg(f_out).q = 511

C37_DeviceIdLow16Only ==
    (d_op = "new" /\ d_ret # "Running" /\ t_err = "none") =>
        LET low == field(d_arg.id, 0, 65535)
        IN  /\ low = 26370 => d_ret = "Ok"
            /\ low # 26370 => d_ret = "GpuNotDetected"
            /\ \A other \in IdValues :
                field(other, 0, 65535) = low => new_ret(other) = d_ret

\* new has accepted the ID word of make_driver, whose version field is not
\* zero.
C37_Witness ==
    /\ d_op = "new"
    /\ d_ret = "Ok"
    /\ d_arg.id = U64(26370, 0, 2560, 0)
    /\ field(d_arg.id, 32, 65535) = 2560

(***************************************************************************)
(* Frame bookkeeping of Core 1.                                            *)
(***************************************************************************)
\* C38: the step in which Core 1 processes a dequeued WaitVsync leaves
\* cmds_this_frame and idle_spins at zero and frame_count one higher; the
\* step in which it processes any other command leaves frame_count and
\* idle_spins as they were and counts the command in cmds_this_frame.
C38_BookkeepingResetsAtVsync ==
    [][executed' # executed =>
        IF executed'[Len(executed')].kind = "WaitVsync"
        THEN /\ cmds_this_frame' = 0
             /\ idle_spins' = 0
             /\ frame_count' = frame_count + 1
        ELSE /\ frame_count' = frame_count
             /\ idle_spins' = idle_spins
             /\ cmds_this_frame' = cmds_this_frame + 1
             /\ cmds_this_frame' > 0]_vars

\* Core 1 has just processed the WaitVsync of the second frame, after
\* commands counted in that frame.
C38_Witness ==
    /\ Len(executed) >= 4
    /\ executed[Len(executed)].kind = "WaitVsync"
    /\ executed[Len(executed) - 1].kind # "WaitVsync"
    /\ frame_count = 2
    /\ cmds_this_frame = 0
    /\ idle_spins = 0

====
